---- MODULE Spec2Model ----
(***************************************************************************)
(* Receipt OCR pipeline: currency parsing and field extraction.            *)
(*                                                                         *)
(* Text is modelled character by character: a Python str is a sequence of  *)
(* one-character strings.  A Python float that was parsed from a decimal   *)
(* numeral is the pair <<n, d>> denoting n / 10^d, with d minimal.  A call *)
(* that can raise returns a record whose exc field names the exception     *)
(* ("none" when it returned normally).                                     *)
(***************************************************************************)
EXTENDS Integers, Sequences, FiniteSets, TLC

VARIABLES
    pc,               \* position of the call under analysis
    currency_string,  \* argument of CurrencyParser.parse
    parse_result,     \* what CurrencyParser.parse returned
    ocr_results,      \* the detections, as ReceiptOCR.extract_text returns them
    text_lines,       \* the detections grouped into lines by get_text_lines
    total_result,     \* what TotalAmountExtractor.extract returned
    today,            \* date.today() at the time of the call, <<year, month, day>>
    written,          \* the date as it is printed on the receipt
    date_result,      \* what DateExtractor.extract returned
    top_n_lines,      \* the top_n_lines argument of MerchantExtractor.extract
    merchant_result,  \* what MerchantExtractor.extract returned
    extraction,       \* what ReceiptExtractor.extract_all returned
    request,          \* the upload extract_receipt was called with
    response,         \* what extract_receipt answered
    stages,           \* the stages of the pipeline that ran for the request
    bbox,             \* the bbox argument of OCRResult.__init__
    quad,             \* OCRResult.bbox after construction
    amount,           \* the value argument of CurrencyParser.is_valid_amount
    is_valid,         \* what CurrencyParser.is_valid_amount returned
    photo,            \* the image argument of _validate_and_resize, a shape
    resized,          \* what _validate_and_resize returned
    _ocr_engine,      \* the module global _ocr_engine of routes.py
    engines,          \* the ReceiptOCR objects constructed, each with its _ocr field
    callers,          \* the concurrent callers of get_ocr_engine and _get_ocr
    handles           \* the PaddleOCR handles constructed so far

\* the variables of the extractors and of the service around them
extractorVars == <<currency_string, parse_result, ocr_results, text_lines, total_result,
                   today, written, date_result, top_n_lines, merchant_result, extraction>>

serviceVars == <<request, response, stages, bbox, quad, amount, is_valid, photo, resized,
                 _ocr_engine, engines, callers, handles>>

vars == <<pc, extractorVars, serviceVars>>

\* Python None: a tuple that is no str (its element is not one character),
\* no float <<n, d>> and no date <<y, m, d>>
None == <<"None">>

\* value of a variable the specification at hand does not use
Idle == <<>>

\* no variable of the service is in use
ServiceIdle ==
    /\ request = Idle
    /\ response = Idle
    /\ stages = Idle
    /\ bbox = Idle
    /\ quad = Idle
    /\ amount = Idle
    /\ is_valid = Idle
    /\ photo = Idle
    /\ resized = Idle
    /\ _ocr_engine = Idle
    /\ engines = Idle
    /\ callers = Idle
    /\ handles = Idle

(***************************************************************************)
(* Bounds of the model.                                                    *)
(***************************************************************************)
MaxRun == 5

\* most detections on a receipt given to the total extractor
MaxDetections == 3

(***************************************************************************)
(* Characters and the str methods the code uses.                           *)
(***************************************************************************)
Digit == {"0", "1", "2", "3", "4", "5", "6", "7", "8", "9"}

UpperCase == <<"A", "B", "C", "D", "E", "F", "G", "H", "I", "J", "K", "L", "M",
               "N", "O", "P", "Q", "R", "S", "T", "U", "V", "W", "X", "Y", "Z">>

LowerCase == <<"a", "b", "c", "d", "e", "f", "g", "h", "i", "j", "k", "l", "m",
               "n", "o", "p", "q", "r", "s", "t", "u", "v", "w", "x", "y", "z">>

IsDigit(c) == c \in Digit

IsSpace(c) == c = " "

UpperSet == {UpperCase[i] : i \in 1..26}

LowerSet == {LowerCase[i] : i \in 1..26}

ToLower == [c \in UpperSet |-> LowerCase[CHOOSE i \in 1..26 : UpperCase[i] = c]]

IsUpper(c) == c \in UpperSet

IsLower(c) == c \in LowerSet

IsAlpha(c) == IsUpper(c) \/ IsLower(c)

\* \w of the re module
IsWord(c) == IsAlpha(c) \/ IsDigit(c) \/ c = "_"

LowerChar(c) == IF IsUpper(c) THEN ToLower[c] ELSE c

lower(s) == [i \in 1..Len(s) |-> LowerChar(s[i])]

DigitVal(c) ==
    CASE c = "0" -> 0 [] c = "1" -> 1 [] c = "2" -> 2 [] c = "3" -> 3
      [] c = "4" -> 4 [] c = "5" -> 5 [] c = "6" -> 6 [] c = "7" -> 7
      [] c = "8" -> 8 [] c = "9" -> 9

SetMax(S) == CHOOSE x \in S : \A y \in S : y <= x

SetMin(S) == CHOOSE x \in S : \A y \in S : x <= y

strip(s) ==
    LET keep == {i \in 1..Len(s) : ~IsSpace(s[i])}
    IN  IF keep = {} THEN <<>> ELSE SubSeq(s, SetMin(keep), SetMax(keep))

count(s, c) == Cardinality({i \in 1..Len(s) : s[i] = c})

\* str.rfind for a one-character needle, 0-based as in Python, -1 when absent
rfind(s, c) ==
    LET at == {i \in 1..Len(s) : s[i] = c}
    IN  IF at = {} THEN -1 ELSE SetMax(at) - 1

RECURSIVE replace(_, _, _)
\* str.replace(c, r) for a one-character needle c and a replacement string r
replace(s, c, r) ==
    IF s = <<>> THEN <<>>
    ELSE (IF s[1] = c THEN r ELSE <<s[1]>>) \o replace(Tail(s), c, r)

\* re.sub(r"\s+", "", s)
RemoveWhitespace(s) == replace(s, " ", <<>>)

StartsWith(s, lit) == Len(s) >= Len(lit) /\ SubSeq(s, 1, Len(lit)) = lit

(***************************************************************************)
(* float(str) on the strings _parse_number_string builds: an optional sign, *)
(* then digits with at most one point and at least one digit; anything     *)
(* else is a ValueError.                                                   *)
(***************************************************************************)
RECURSIVE IntOf(_)
IntOf(ds) ==
    IF ds = <<>> THEN 0 ELSE 10 * IntOf(SubSeq(ds, 1, Len(ds) - 1)) + DigitVal(ds[Len(ds)])

RECURSIVE Norm(_)
Norm(v) == IF v[2] > 0 /\ v[1] % 10 = 0 THEN Norm(<<v[1] \div 10, v[2] - 1>>) ELSE v

float(s) ==
    LET signed == s # <<>> /\ s[1] \in {"-", "+"}
        sign == IF s # <<>> /\ s[1] = "-" THEN -1 ELSE 1
        points == count(s, ".")
        digits == replace(IF signed THEN Tail(s) ELSE s, ".", <<>>)
        wellFormed == /\ points <= 1
                      /\ digits # <<>>
                      /\ \A i \in 1..Len(digits) : IsDigit(digits[i])
    IN  IF wellFormed
        THEN [exc |-> "none",
              v |-> Norm(<<sign * IntOf(digits),
                           IF points = 0 THEN 0 ELSE Len(s) - 1 - rfind(s, ".")>>)]
        ELSE [exc |-> "ValueError", v |-> None]

(***************************************************************************)
(* CurrencyParser._parse_number_string                                     *)
(***************************************************************************)
\* SingleComma without the three-digit thousands case
SingleCommaAlwaysDecimal(number_str) == float(replace(number_str, ",", <<".">>))

\* one comma, no dot: the digits after the comma decide
SingleComma(number_str) ==
    LET after == Len(number_str) - 1 - rfind(number_str, ",")
    IN  IF after = 2 THEN float(replace(number_str, ",", <<".">>))
        ELSE IF after = 3 THEN float(replace(number_str, ",", <<>>))
        ELSE float(replace(number_str, ",", <<".">>))

\* one dot, no comma: the digits after the dot decide
SingleDot(number_str) ==
    LET after == Len(number_str) - 1 - rfind(number_str, ".")
    IN  IF after = 2 THEN float(number_str)
        ELSE IF after = 3 THEN float(replace(number_str, ".", <<>>))
        ELSE float(number_str)

\* dots and commas: the separator that comes last is the decimal separator
MixedSeparators(number_str) ==
    LET last_dot == rfind(number_str, ".")
        last_comma == rfind(number_str, ",")
    IN  IF last_comma > last_dot
        THEN float(replace(replace(number_str, ".", <<>>), ",", <<".">>))
        ELSE float(replace(number_str, ",", <<>>))

\* several dots, no comma
MultipleDots(number_str) == float(replace(number_str, ".", <<>>))

\* several commas, no dot
MultipleCommas(number_str) == float(replace(number_str, ",", <<>>))

\* the body of the try block
NumberStringTry(number_str) ==
    LET dots == count(number_str, ".")
        commas == count(number_str, ",")
    IN  IF dots = 0 /\ commas = 0 THEN float(number_str)
        ELSE IF dots = 0 /\ commas = 1 THEN SingleComma(number_str)
        ELSE IF dots = 1 /\ commas = 0 THEN SingleDot(number_str)
        ELSE IF dots >= 1 /\ commas >= 1 THEN MixedSeparators(number_str)
        ELSE IF dots > 1 /\ commas = 0 THEN MultipleDots(number_str)
        ELSE IF dots = 0 /\ commas > 1 THEN MultipleCommas(number_str)
        ELSE MixedSeparators(number_str)

\* ExceptValueError without the except clause: the ValueError propagates
ExceptNothing(r) == r

\* the except clause: a ValueError of float() becomes None
ExceptValueError(r) ==
    IF r.exc = "ValueError" THEN [exc |-> "none", v |-> None] ELSE r

_parse_number_string(number_str0) ==
    LET number_str == RemoveWhitespace(number_str0)
    IN  IF number_str = <<>> THEN [exc |-> "none", v |-> None]
        ELSE ExceptValueError(NumberStringTry(number_str))

(***************************************************************************)
(* CurrencyParser.parse                                                    *)
(***************************************************************************)
\* [lit, dot]: the letters of the prefix, matched ignoring case, and whether
\* an optional "." may follow them; every pattern ends with \s*
CURRENCY_PREFIXES ==
    << [lit |-> <<"r", "p">>, dot |-> TRUE],
       [lit |-> <<"i", "d", "r">>, dot |-> FALSE],
       [lit |-> <<"$">>, dot |-> FALSE],
       [lit |-> <<"u", "s", "d">>, dot |-> FALSE] >>

\* length of the match of a prefix pattern at the start of s, 0 when none
PrefixMatchLen(p, s) ==
    IF Len(s) < Len(p.lit) \/ lower(SubSeq(s, 1, Len(p.lit))) # p.lit THEN 0
    ELSE LET a == Len(p.lit)
             b == IF p.dot /\ Len(s) > a /\ s[a + 1] = "." THEN a + 1 ELSE a
             stop == {k \in b..Len(s) : k = Len(s) \/ ~IsSpace(s[k + 1])}
         IN  SetMin(stop)

RECURSIVE re_sub_prefix(_, _)
\* re.sub(prefix_pattern, "", s, flags=re.IGNORECASE): every match is removed
re_sub_prefix(p, s) ==
    IF s = <<>> THEN <<>>
    ELSE LET m == PrefixMatchLen(p, s)
         IN  IF m > 0 THEN re_sub_prefix(p, SubSeq(s, m + 1, Len(s)))
             ELSE <<s[1]>> \o re_sub_prefix(p, Tail(s))

RECURSIVE RemovePrefixes(_, _)
\* the loop over CURRENCY_PREFIXES, from pattern k on
RemovePrefixes(k, s) ==
    IF k > Len(CURRENCY_PREFIXES) THEN s
    ELSE RemovePrefixes(k + 1, re_sub_prefix(CURRENCY_PREFIXES[k], s))

IsRunChar(c) == IsDigit(c) \/ c = "." \/ c = "," \/ IsSpace(c)

\* the pattern without its leading [^\d]*: the run has to start the text
NumberPatternWithoutLead(s) ==
    LET n == Len(s)
        ends == {j \in 1..n : /\ \A k \in 1..j : IsRunChar(s[k])
                              /\ \A k \in (j + 1)..n : ~IsDigit(s[k])}
    IN  IF ends = {} THEN [matched |-> FALSE, group1 |-> <<>>]
        ELSE [matched |-> TRUE, group1 |-> SubSeq(s, 1, SetMax(ends))]

\* the pattern without its closing [^\d]*$: whatever follows the run
NumberPatternOpenEnd(s) ==
    LET n == Len(s)
        ok == {ij \in (0..n) \X (1..n) :
                  /\ ij[1] < ij[2]
                  /\ \A k \in 1..ij[1] : ~IsDigit(s[k])
                  /\ \A k \in (ij[1] + 1)..ij[2] : IsRunChar(s[k])}
        First(i) == [matched |-> TRUE,
                     group1 |-> SubSeq(s, i + 1, SetMax({ij[2] : ij \in {x \in ok : x[1] = i}}))]
    IN  IF ok = {} THEN [matched |-> FALSE, group1 |-> <<>>]
        ELSE First(SetMax({ij[1] : ij \in ok}))

\* the pattern with a sign let into the group: ^[^\d]*?(-?[\d.,\s]+)[^\d]*$
NumberPatternSigned(s) ==
    LET n == Len(s)
        ok == {ij \in (0..n) \X (1..n) :
                  /\ ij[1] < ij[2]
                  /\ \A k \in 1..ij[1] : ~IsDigit(s[k])
                  /\ \A k \in (ij[1] + 1)..ij[2] : IsRunChar(s[k])
                  /\ \A k \in (ij[2] + 1)..n : ~IsDigit(s[k])}
        Group(i, j) == IF i >= 1 /\ s[i] = "-" THEN SubSeq(s, i, j) ELSE SubSeq(s, i + 1, j)
        First(i) == [matched |-> TRUE,
                     group1 |-> Group(i, SetMax({ij[2] : ij \in {x \in ok : x[1] = i}}))]
    IN  IF ok = {} THEN [matched |-> FALSE, group1 |-> <<>>]
        ELSE First(SetMax({ij[1] : ij \in ok}))

\* NUMBER_PATTERN.match(s): ^[^\d]*([\d.,\s]+)[^\d]*$ with the greedy
\* preference of the regex engine (longest skipped start, then longest group)
NUMBER_PATTERN_match(s) ==
    LET n == Len(s)
        NoDigit(a, b) == \A k \in a..b : ~IsDigit(s[k])
        InRun(a, b) == \A k \in a..b : IsRunChar(s[k])
        ok == {ij \in (0..n) \X (1..n) :
                  /\ ij[1] < ij[2]
                  /\ NoDigit(1, ij[1])
                  /\ InRun(ij[1] + 1, ij[2])
                  /\ NoDigit(ij[2] + 1, n)}
    IN  IF ok = {} THEN [matched |-> FALSE, group1 |-> <<>>]
        ELSE LET i == SetMax({ij[1] : ij \in ok})
                 j == SetMax({ij[2] : ij \in {x \in ok : x[1] = i}})
             IN  [matched |-> TRUE, group1 |-> SubSeq(s, i + 1, j)]

\* the numeric run parse hands to _parse_number_string (lines 56-74); found is
\* FALSE when parse returns before the call
NumberRun(text) ==
    LET cleaned == strip(RemovePrefixes(1, strip(text)))
        match == NUMBER_PATTERN_match(cleaned)
    IN  IF cleaned = <<>> \/ ~match.matched THEN [found |-> FALSE, run |-> <<>>]
        ELSE [found |-> TRUE, run |-> strip(match.group1)]

\* the input is [type, v]: type is the Python type of the argument and v its
\* text (the characters of a str, the decimal digits of an int, <<>> for None)
Truthy(x) ==
    CASE x.type = "NoneType" -> FALSE
      [] x.type = "int" -> x.v # <<"0">>
      [] x.type = "str" -> x.v # <<>>

parse(x) ==
    IF ~Truthy(x) \/ x.type # "str"
    THEN [exc |-> "none", value |-> None, raw |-> IF Truthy(x) THEN x.v ELSE <<>>]
    ELSE LET Value(original, r) ==
                 IF r.exc # "none"
                 THEN [exc |-> r.exc, value |-> None, raw |-> None]
                 ELSE [exc |-> "none", value |-> r.v, raw |-> original]
             Number(original, nr) ==
                 IF ~nr.found THEN [exc |-> "none", value |-> None, raw |-> original]
                 ELSE Value(original, _parse_number_string(nr.run))
         IN  Number(strip(x.v), NumberRun(x.v))

(***************************************************************************)
(* Calls of CurrencyParser.parse: the argument is None, an int, or a str   *)
(* made of a label or currency prefix, a run of digits and separators, and *)
(* trailing text.                                                          *)
(***************************************************************************)
RunChars == {"0", "5", ".", ","}

Runs == UNION {[1..k -> RunChars] : k \in 0..MaxRun}

\* <<text before the run, text after the run>>
Contexts ==
    { << <<>>, <<>> >>,
      << <<" ">>, <<>> >>,
      << <<"R", "p", " ">>, <<>> >>,
      << <<"r", "p", ".">>, <<>> >>,
      << <<"-">>, <<>> >>,
      << <<"x", " ", "$">>, <<>> >>,
      << <<>>, <<" ", "5">> >>,
      << <<>>, <<"a">> >>,
      << <<" ">>, <<"a">> >>,
      << <<"I", "D", "R", " ">>, <<" ", "5">> >> }

ParseInputs ==
    {[type |-> "NoneType", v |-> <<>>]}
    \cup {[type |-> "int", v |-> d] : d \in {<<"0">>, <<"5", "0">>}}
    \cup {[type |-> "str", v |-> c[1] \o r \o c[2]] : c \in Contexts, r \in Runs}

InitParse ==
    /\ pc = "start"
    /\ ServiceIdle
    /\ currency_string \in ParseInputs
    /\ parse_result = Idle
    /\ ocr_results = Idle
    /\ text_lines = Idle
    /\ total_result = Idle
    /\ today = Idle
    /\ written = Idle
    /\ date_result = Idle
    /\ top_n_lines = Idle
    /\ merchant_result = Idle
    /\ extraction = Idle

Parse ==
    /\ pc = "start"
    /\ parse_result' = parse(currency_string)
    /\ pc' = "done"
    /\ UNCHANGED <<currency_string, ocr_results, text_lines, total_result,
                   today, written, date_result,
                   top_n_lines, merchant_result, extraction,
                   serviceVars>>

NextParse == Parse

SpecParse == InitParse /\ [][NextParse]_vars

(***************************************************************************)
(* Claims about CurrencyParser.parse, checked under SpecParse.             *)
(***************************************************************************)
ParseDone == pc = "done" /\ currency_string.type = "str"

\* the run as _parse_number_string sees it, internal whitespace removed
Run == RemoveWhitespace(NumberRun(currency_string.v).run)

HasRun == ParseDone /\ NumberRun(currency_string.v).found

DigitsOf(s) == SelectSeq(s, IsDigit)

SepAt(s) == {i \in 1..Len(s) : s[i] \in {".", ","}}

\* the number read with the separator at index k as the decimal point and
\* every other separator dropped; None when there is no digit at all
DecimalAt(s, k) ==
    IF DigitsOf(s) = <<>> THEN None
    ELSE Norm(<<IntOf(DigitsOf(s)), Len(DigitsOf(SubSeq(s, k + 1, Len(s))))>>)

\* the number read with every separator dropped
AllThousands(s) == IF DigitsOf(s) = <<>> THEN None ELSE <<IntOf(DigitsOf(s)), 0>>

SwapSeparators(s) ==
    [i \in 1..Len(s) |-> IF s[i] = "." THEN "," ELSE IF s[i] = "," THEN "." ELSE s[i]]

Mixed(s) == count(s, ".") >= 1 /\ count(s, ",") >= 1

\* C1: when the numeric run holds at least one dot and at least one comma,
\* the separator occurring last is the decimal point and every other
\* occurrence of either separator is dropped, so a number is returned; and
\* exchanging dots and commas in the run gives the same value.
C1_LastSeparatorIsDecimal ==
    HasRun =>
        LET run == Run
        IN  Mixed(run) =>
                /\ parse_result.value = DecimalAt(run, SetMax(SepAt(run)))
                /\ parse_result.value # None
                /\ _parse_number_string(SwapSeparators(run)).v = parse_result.value

\* C2: when the numeric run holds one kind of separator only: occurring
\* once, it is a decimal point unless exactly 3 digits follow it, in which
\* case it is dropped as a thousands separator; occurring two or more
\* times, every occurrence is dropped.  Dot and comma are treated alike.
C2_OneKindOfSeparator ==
    HasRun =>
        LET run == Run
            dots == count(run, ".")
            commas == count(run, ",")
            n == dots + commas
            k == SetMax(SepAt(run))
            after == Len(run) - k
            value == parse_result.value
        IN  (n >= 1 /\ (dots = 0 \/ commas = 0)) =>
                /\ (n = 1 /\ after = 2) => value = DecimalAt(run, k)
                /\ (n = 1 /\ after = 3) => value = AllThousands(run)
                /\ (n = 1 /\ after \notin {2, 3}) => value = DecimalAt(run, k)
                /\ n >= 2 => value = AllThousands(run)
                /\ _parse_number_string(SwapSeparators(run)).v = value

\* a comma followed by exactly three digits was read as a thousands
\* separator, and a run with two dots was read with both dropped
C2_Witness ==
    /\ HasRun
    /\ \/ Run = <<"5", ",", "0", "0", "0">> /\ parse_result.value = <<5000, 0>>
       \/ Run = <<"5", ".", "5", ".", "5">> /\ parse_result.value = <<555, 0>>

Spaces(n) == [i \in 1..n |-> " "]

\* raw is text with the whitespace around it removed
IsStripOf(raw, text) ==
    /\ raw = <<>> \/ (raw[1] # " " /\ raw[Len(raw)] # " ")
    /\ \E a, b \in 0..Len(text) : text = Spaces(a) \o raw \o Spaces(b)

Uninterpretable(x) ==
    x.type # "str" \/ \A i \in 1..Len(x.v) : ~IsDigit(x.v[i])

TotalTexts ==
    { <<"T", "o", "t", "a", "l">>, <<"1", "5", "0", ".", "0", "0", "0">>, <<"R", "p", " ", "5", "5", ".", "0", "0", "0">>, <<"5", "0">>, <<"D", "i", "s", "k", "o", "n", " ", "5", ".", "0", "0", "0">>,
      <<"T", "h", "a", "n", "k", "s">>, <<"A", "B", "1", "2", "3", "4", "5", "6">> }

FieldTexts == {<<"I", "N", "D", "O", "M", "A", "R", "E", "T">>, <<"1", "1", "/", "0", "1", "/", "2", "0", "2", "6">>, <<"T", "o", "t", "a", "l">>, <<"5", "5", ".", "0", "0", "0">>}

ReceiptTexts == TotalTexts \cup FieldTexts

(***************************************************************************)
(* Detections.  An OCRResult is [text, confidence, center_y, left_x,       *)
(* line_index]; confidence is in thousandths; text is a str, or None when  *)
(* the caller built the OCRResult from content that is no str.             *)
(***************************************************************************)
IsStr(t) == t # None

RECURSIVE join(_)
\* " ".join(texts)
join(texts) ==
    IF texts = <<>> THEN <<>>
    ELSE IF Len(texts) = 1 THEN texts[1]
    ELSE texts[1] \o <<" ">> \o join(Tail(texts))

Texts(results) == [i \in 1..Len(results) |-> results[i].text]

AllStr(results) == \A i \in 1..Len(results) : IsStr(results[i].text)

\* kw in text
Contains(text, kw) ==
    \E i \in 1..(Len(text) - Len(kw) + 1) : SubSeq(text, i, i + Len(kw) - 1) = kw

Pow10(d) == CASE d = 0 -> 1 [] d = 1 -> 10 [] d = 2 -> 100 [] d = 3 -> 1000
              [] d = 4 -> 10000 [] d = 5 -> 100000 [] d = 6 -> 1000000

\* a >= b and a > b on floats <<n, d>>
Geq(a, b) == a[1] * Pow10(b[2]) >= b[1] * Pow10(a[2])

Gt(a, b) == a[1] * Pow10(b[2]) > b[1] * Pow10(a[2])

\* ReceiptOCR.extract_text, lines 244-249: the detections are in ascending
\* center_y order and line_index counts them from 0.  A layout entry is
\* <<text, confidence, distance below the previous detection>>; left_x grows
\* in reading order.
RECURSIVE Descent(_, _, _)
\* the distances of the entries a..b added up, by halves
Descent(layout, a, b) ==
    IF a > b THEN 0
    ELSE IF a = b THEN layout[a][3]
    ELSE Descent(layout, a, (a + b) \div 2) + Descent(layout, (a + b) \div 2 + 1, b)

CenterY(layout, i) == Descent(layout, 1, i)

Detections(layout) ==
    [i \in 1..Len(layout) |->
        [text |-> layout[i][1], confidence |-> layout[i][2],
         center_y |-> CenterY(layout, i), left_x |-> 10 * i, line_index |-> i - 1]]

\* the receipts of at most n detections; the first detection has the least gap
Receipts(texts, confidences, gaps, n) ==
    {Detections(layout) :
        layout \in {l \in UNION {[1..k -> texts \X confidences \X gaps] : k \in 0..n} :
                       l = <<>> \/ l[1][3] = SetMin(gaps)}}

(***************************************************************************)
(* ReceiptOCR.get_text_lines                                               *)
(***************************************************************************)
line_threshold == 20

Abs(x) == IF x < 0 THEN -x ELSE x

RECURSIVE InsertByLeftX(_, _)
\* insertion that keeps equal left_x in arrival order (list.sort is stable)
InsertByLeftX(line, r) ==
    IF line = <<>> THEN <<r>>
    ELSE IF line[Len(line)].left_x <= r.left_x THEN Append(line, r)
    ELSE Append(InsertByLeftX(SubSeq(line, 1, Len(line) - 1), r), line[Len(line)])

\* the line left in arrival order
ArrivalOrder(line) == line

RECURSIVE SortByLeftX(_)
SortByLeftX(line) ==
    IF line = <<>> THEN <<>>
    ELSE InsertByLeftX(SortByLeftX(SubSeq(line, 1, Len(line) - 1)), line[Len(line)])

RECURSIVE GroupLinesByNeighbour(_, _, _, _)
\* the loop comparing each detection with the one before it
GroupLinesByNeighbour(results, k, current_line, current_y) ==
    IF k > Len(results) THEN <<SortByLeftX(current_line)>>
    ELSE IF Abs(results[k].center_y - current_y) <= line_threshold
         THEN GroupLinesByNeighbour(results, k + 1, Append(current_line, results[k]),
                                    results[k].center_y)
         ELSE <<SortByLeftX(current_line)>>
                  \o GroupLinesByNeighbour(results, k + 1, <<results[k]>>, results[k].center_y)

\* the detection that ends a line whose first detection lies at y: the first
\* one from j on that is farther than line_threshold from y
FirstFar(results, j, y) ==
    SetMin({i \in j..Len(results) : Abs(results[i].center_y - y) > line_threshold}
           \cup {Len(results) + 1})

RECURSIVE LineStarts(_, _, _)
\* the detections that start a line: those the loop reaches from the ones in
\* found; jump[s] is the start it reaches from s after 2^j lines, j counting
\* the rounds done
LineStarts(found, jump, rounds) ==
    IF rounds = 0 THEN found
    ELSE LineStarts(found \cup {jump[s] : s \in found},
                    [s \in DOMAIN jump |-> jump[jump[s]]], rounds - 1)

\* the loop over results[1:], from detection k on: current_line takes the
\* detections up to the first one far from current_y, and every later line
\* starts at the first detection far from the start of the line before it
GroupLines(results, k, current_line, current_y) ==
    LET n == Len(results)
        NextStart(s) == IF s > n THEN s ELSE FirstFar(results, s + 1, results[s].center_y)
        Line(s) == SortByLeftX(SubSeq(results, s, NextStart(s) - 1))
        Ordered(starts) == [j \in 1..Len(starts) |-> Line(starts[j])]
        Later(starts) == Ordered(SelectSeq([i \in 1..n |-> i], LAMBDA s : s \in starts))
        From(first) ==
            <<SortByLeftX(current_line \o SubSeq(results, k, first - 1))>>
                \o Later(LineStarts({first}, [s \in k..(n + 1) |-> NextStart(s)],
                                    CHOOSE r \in 0..30 : 2^r > n /\ (r = 0 \/ 2^(r - 1) <= n)))
    IN  From(FirstFar(results, k, current_y))

get_text_lines(results) ==
    IF results = <<>> THEN <<>>
    ELSE GroupLines(results, 2, <<results[1]>>, results[1].center_y)

(***************************************************************************)
(* ExtractionConfig: keyword lists                                         *)
(***************************************************************************)
TOTAL_KEYWORDS ==
    << <<"g", "r", "a", "n", "d", " ", "t", "o", "t", "a", "l">>,
       <<"t", "o", "t", "a", "l">>,
       <<"j", "u", "m", "l", "a", "h">>,
       <<"b", "a", "y", "a", "r">>,
       <<"a", "m", "o", "u", "n", "t">>,
       <<"t", "u", "n", "a", "i">>,
       <<"c", "a", "s", "h">>,
       <<"s", "u", "b", "t", "o", "t", "a", "l">>,
       <<"s", "u", "b", " ", "t", "o", "t", "a", "l">>,
       <<"p", "e", "m", "b", "a", "y", "a", "r", "a", "n">>,
       <<"t", "a", "g", "i", "h", "a", "n">>,
       <<"t", "o", "t", "a", "l", " ", "b", "a", "y", "a", "r">>,
       <<"t", "o", "t", "a", "l", " ", "b", "e", "l", "a", "n", "j", "a">> >>

EXCLUDE_KEYWORDS ==
    << <<"d", "i", "s", "k", "o", "n">>,
       <<"d", "i", "s", "c", "o", "u", "n", "t">>,
       <<"p", "p", "n">>,
       <<"t", "a", "x">>,
       <<"p", "a", "j", "a", "k">>,
       <<"k", "e", "m", "b", "a", "l", "i", "a", "n">>,
       <<"c", "h", "a", "n", "g", "e">>,
       <<"i", "t", "e", "m">>,
       <<"q", "t", "y">>,
       <<"q", "u", "a", "n", "t", "i", "t", "y">> >>

HasKeyword(keywords, line_text) ==
    \E k \in 1..Len(keywords) : Contains(line_text, keywords[k])

(***************************************************************************)
(* TotalAmountExtractor.  A result is [exc, raw, value, confidence], the   *)
(* confidence in thousandths.                                              *)
(***************************************************************************)
NoTotal == [exc |-> "none", raw |-> None, value |-> None, confidence |-> 0]

Raised(e) == [exc |-> e, raw |-> None, value |-> None, confidence |-> 0]

Found(raw, value, confidence) ==
    [exc |-> "none", raw |-> raw, value |-> value, confidence |-> confidence]

\* the argument parse receives for a detection text
AsArgument(text) ==
    IF IsStr(text) THEN [type |-> "str", v |-> text] ELSE [type |-> "NoneType", v |-> <<>>]

\* the smallest amount any strategy accepts (parsed >= 100)
MinTotal == <<100, 0>>

\* parser.parse(result.text)
Amount(result) == parse(AsArgument(result.text))

\* the test without its lower limit: "parsed is not None"
IsAnyAmount(result) == Amount(result).value # None

\* "parsed is not None and parsed >= 100"
IsAmount(result) ==
    LET Accepted(parsed) == parsed.value # None /\ Geq(parsed.value, MinTotal)
    IN  Accepted(Amount(result))

\* " ".join(r.text for r in line).lower(); a text that is no str is a TypeError
LineText(line) == lower(join(Texts(line)))

\* the keyword line read from the left: the first qualifying detection
KeywordLineAmountLeftFirst(line, k) ==
    LET Take(a) == Found(a.raw, a.value, 900)
        Pick(q) == IF q = {} THEN NoTotal ELSE Take(Amount(line[SetMin(q)]))
    IN  Pick({j \in 1..k : IsAmount(line[j])})

RECURSIVE KeywordLineAmount(_, _)
\* lines 297-302: the keyword line from detection k leftwards
KeywordLineAmount(line, k) ==
    IF k = 0 THEN NoTotal
    ELSE LET Take(a) ==
                 IF a.value # None /\ Gt(a.value, <<0, 0>>) /\ Geq(a.value, MinTotal)
                 THEN Found(a.raw, a.value, 900)
                 ELSE KeywordLineAmount(line, k - 1)
         IN  Take(Amount(line[k]))

RECURSIVE NextLineAmount(_, _)
\* lines 308-311: the line after the keyword line from detection k rightwards
NextLineAmount(next_line, k) ==
    IF k > Len(next_line) THEN NoTotal
    ELSE LET Take(a) ==
                 IF a.value # None /\ Geq(a.value, MinTotal)
                 THEN Found(a.raw, a.value, 850)
                 ELSE NextLineAmount(next_line, k + 1)
         IN  Take(Amount(next_line[k]))

\* text_lines.index(line), 1-based: the first line equal to this one
IndexOf(lines, line) == SetMin({j \in 1..Len(lines) : lines[j] = line})

\* lines 292-311 for one keyword line: every matching keyword of
\* TOTAL_KEYWORDS repeats the same two scans, so one pass decides
KeywordLine(lines, line) ==
    LET NextLine(line_idx) ==
            IF line_idx + 1 <= Len(lines) THEN NextLineAmount(lines[line_idx + 1], 1)
            ELSE NoTotal
        SameLine(here) ==
            IF here.value # None THEN here ELSE NextLine(IndexOf(lines, line))
    IN  SameLine(KeywordLineAmount(line, Len(line)))

\* one pass of the loop body, lines 284-311, on line i: the join raises, or
\* the line is skipped, or it is a keyword line and gives what its scans find
ScannedLine(lines, i) ==
    IF ~AllStr(lines[i]) THEN Raised("TypeError")
    ELSE LET Line(line_text) ==
                 IF HasKeyword(EXCLUDE_KEYWORDS, line_text) THEN NoTotal
                 ELSE IF HasKeyword(TOTAL_KEYWORDS, line_text)
                      THEN KeywordLine(lines, lines[i])
                      ELSE NoTotal
         IN  Line(LineText(lines[i]))

\* the loop over reversed(text_lines), from line i upwards: it ends at the
\* lowest line whose pass raises or returns
KeywordScan(lines, i) ==
    LET Ends(r) == r.exc # "none" \/ r.value # None
        Last(ends) == IF ends = {} THEN NoTotal ELSE ScannedLine(lines, SetMax(ends))
    IN  Last({k \in 1..i : Ends(ScannedLine(lines, k))})

_extract_by_keyword(lines) == KeywordScan(lines, Len(lines))

\* int(len(text_lines) * 0.7) in double precision.  The double 0.7 is
\* 0.7 - 0.4 * 2^-53, so the exact product is 7n/10 - 0.4n * 2^-53; when 7n/10
\* is a whole number q, the product rounds to the double below q as soon as
\* 0.4n * 2^-53 is more than half the spacing 2^(e-53) of the doubles below
\* q, 2^e being the least power of two that is at least q: that is
\* 4n > 5 * 2^e, and then the truncation gives q - 1 (n = 90 gives 62).
BottomStart(n) ==
    LET q == (7 * n) \div 10
        Rounded(e) == IF n % 10 = 0 /\ n > 0 /\ 4 * n > 5 * 2^e THEN q - 1 ELSE q
    IN  Rounded(CHOOSE e \in 0..24 : 2^e >= q /\ (e = 0 \/ 2^(e - 1) < q))

RECURSIVE Flatten(_)
\* the detections of the lines in order, joined by halves
Flatten(lines) ==
    IF lines = <<>> THEN <<>>
    ELSE IF Len(lines) = 1 THEN lines[1]
    ELSE Flatten(SubSeq(lines, 1, Len(lines) \div 2))
             \o Flatten(SubSeq(lines, Len(lines) \div 2 + 1, Len(lines)))

RECURSIVE BestAmount(_, _, _)
\* amounts.sort(key=value, reverse=True)[0]: the index of the largest value,
\* the first of equal ones (the sort is stable)
BestAmount(amounts, k, best) ==
    IF k > Len(amounts) THEN best
    ELSE IF Gt(amounts[k].value, amounts[best].value)
         THEN BestAmount(amounts, k + 1, k)
         ELSE BestAmount(amounts, k + 1, best)

\* Largest returning the confidence of the winning detection
LargestOwnConfidence(candidates, confidence) ==
    LET Best(amounts, at) ==
            Found(amounts[at].raw, amounts[at].value, candidates[at].confidence)
        Sorted(amounts) ==
            IF amounts = <<>> THEN NoTotal ELSE Best(amounts, BestAmount(amounts, 2, 1))
    IN  Sorted([k \in 1..Len(candidates) |-> Amount(candidates[k])])

\* "if amounts:" and the return of the best one with the strategy's confidence
Largest(candidates, confidence) ==
    LET Best(best) == Found(best.raw, best.value, confidence)
        Sorted(amounts) ==
            IF amounts = <<>> THEN NoTotal ELSE Best(amounts[BestAmount(amounts, 2, 1)])
    IN  Sorted([k \in 1..Len(candidates) |-> Amount(candidates[k])])

_extract_by_position(results, lines) ==
    IF lines = <<>> THEN NoTotal
    ELSE LET Bottom(bottom_lines) ==
                 IF \E i \in 1..Len(bottom_lines) : ~AllStr(bottom_lines[i])
                 THEN Raised("TypeError")
                 ELSE LET kept == SelectSeq(bottom_lines,
                                     LAMBDA line : ~HasKeyword(EXCLUDE_KEYWORDS, LineText(line)))
                      IN  Largest(SelectSeq(Flatten(kept), IsAmount), 750)
         IN  Bottom(SubSeq(lines, BottomStart(Len(lines)) + 1, Len(lines)))

\* re.match on a str: ^\d{2}[/\-]\d{2}[/\-]\d{2,4}$, ^\d{2}:\d{2}(:\d{2})?$,
\* ^[A-Z]{2,}\d{6,}$
AllDigits(s, a, b) == \A i \in a..b : IsDigit(s[i])

DateShaped(s) ==
    /\ Len(s) \in 8..10
    /\ AllDigits(s, 1, 2) /\ s[3] \in {"/", "-"}
    /\ AllDigits(s, 4, 5) /\ s[6] \in {"/", "-"}
    /\ AllDigits(s, 7, Len(s))

TimeShaped(s) ==
    /\ Len(s) \in {5, 8}
    /\ AllDigits(s, 1, 2) /\ s[3] = ":" /\ AllDigits(s, 4, 5)
    /\ Len(s) = 8 => (s[6] = ":" /\ AllDigits(s, 7, 8))

IdShaped(s) ==
    \E k \in 2..Len(s) :
        /\ \A i \in 1..k : IsUpper(s[i])
        /\ Len(s) - k >= 6
        /\ AllDigits(s, k + 1, Len(s))

\* the test without the transaction-ID pattern
LooksLikeDateOrTime(text) == DateShaped(text) \/ TimeShaped(text)

_looks_like_date_or_id(text) == DateShaped(text) \/ TimeShaped(text) \/ IdShaped(text)

_extract_max_value(results) ==
    Largest(SelectSeq(results,
                LAMBDA r : IsAmount(r) /\ ~_looks_like_date_or_id(r.text)), 600)

TotalAmountExtractor_extract(results, lines) ==
    IF results = <<>> THEN NoTotal
    ELSE LET Position(position_result) ==
                 IF position_result.exc # "none" \/ position_result.value # None
                 THEN position_result
                 ELSE _extract_max_value(results)
             Keyword(keyword_result) ==
                 IF keyword_result.exc # "none" \/ keyword_result.value # None
                 THEN keyword_result
                 ELSE Position(_extract_by_position(results, lines))
         IN  Keyword(_extract_by_keyword(lines))

(***************************************************************************)
(* Calls of TotalAmountExtractor.extract as the route makes them: the      *)
(* lines are those get_text_lines builds from the same detections.         *)
(***************************************************************************)
\* vertical distance to the previous detection: same line, or a new line
Gaps == {0, 40}

InitTotal ==
    /\ pc = "start"
    /\ ServiceIdle
    /\ ocr_results \in Receipts(TotalTexts, {950}, Gaps, MaxDetections)
    /\ text_lines = Idle
    /\ total_result = Idle
    /\ currency_string = Idle
    /\ parse_result = Idle
    /\ today = Idle
    /\ written = Idle
    /\ date_result = Idle
    /\ top_n_lines = Idle
    /\ merchant_result = Idle
    /\ extraction = Idle

GetTextLines ==
    /\ pc = "start"
    /\ text_lines' = get_text_lines(ocr_results)
    /\ pc' = "lines"
    /\ UNCHANGED <<currency_string, parse_result, ocr_results, total_result,
                   today, written, date_result,
                   top_n_lines, merchant_result, extraction,
                   serviceVars>>

ExtractTotal ==
    /\ pc = "lines"
    /\ total_result' = TotalAmountExtractor_extract(ocr_results, text_lines)
    /\ pc' = "done"
    /\ UNCHANGED <<currency_string, parse_result, ocr_results, text_lines,
                   today, written, date_result,
                   top_n_lines, merchant_result, extraction,
                   serviceVars>>

NextTotal == GetTextLines \/ ExtractTotal

SpecTotal == InitTotal /\ [][NextTotal]_vars

(***************************************************************************)
(* Claims about TotalAmountExtractor.extract, checked under SpecTotal.     *)
(***************************************************************************)
\* the same detections with other confidences
Reconfident(results) ==
    [i \in 1..Len(results) |-> [results[i] EXCEPT !.confidence = 100 * i]]

\* C4: extract returns the result of the first of the keyword, position and
\* maximum-value strategies that yields a value; its confidence is 0.90 or
\* 0.85 for the keyword strategy, 0.75 for position and 0.60 for the
\* fallback, whatever the confidences of the detections; when no strategy
\* yields a value the result is (absent, absent, 0.0).
C4_FirstStrategyWins ==
    pc = "done" =>
        LET kw == _extract_by_keyword(text_lines)
            pos == _extract_by_position(ocr_results, text_lines)
            mx == _extract_max_value(ocr_results)
            other == Reconfident(ocr_results)
        IN  /\ total_result.exc = "none"
            /\ (ocr_results # <<>> /\ kw.value # None) =>
                   total_result = kw /\ total_result.confidence \in {900, 850}
            /\ (ocr_results # <<>> /\ kw.value = None /\ pos.value # None) =>
                   total_result = pos /\ total_result.confidence = 750
            /\ (ocr_results # <<>> /\ kw.value = None /\ pos.value = None /\ mx.value # None) =>
                   total_result = mx /\ total_result.confidence = 600
            /\ (ocr_results = <<>> \/ (kw.value = None /\ pos.value = None /\ mx.value = None)) =>
                   total_result = [exc |-> "none", raw |-> None, value |-> None, confidence |-> 0]
            /\ TotalAmountExtractor_extract(other, get_text_lines(other)) = total_result

\* the keyword strategy and the position strategy both yield, with different
\* amounts, and the keyword amount was returned
C4_Witness ==
    /\ pc = "done"
    /\ _extract_by_keyword(text_lines).value # None
    /\ _extract_by_position(ocr_results, text_lines).value # None
    /\ _extract_by_position(ocr_results, text_lines).value
           # _extract_by_keyword(text_lines).value
    /\ total_result = _extract_by_keyword(text_lines)

(***************************************************************************)
(* ExtractionConfig.DATE_PATTERNS and MONTH_MAP.  A pattern is kept as the *)
(* text of its regular expression (the code inspects that text) and is     *)
(* matched by the operator written for it below.                           *)
(***************************************************************************)
DATE_PATTERNS ==
    << << "\\", "b", "(", "\\", "d", "{", "1", ",", "2", "}", ")", "[", "/",
       "\\", "-", ".", "]", "(", "\\", "d", "{", "1", ",", "2", "}", ")",
       "[", "/", "\\", "-", ".", "]", "(", "\\", "d", "{", "4", "}", ")",
       "\\", "b" >>,
       << "\\", "b", "(", "\\", "d", "{", "4", "}", ")", "[", "/", "\\", "-",
       ".", "]", "(", "\\", "d", "{", "1", ",", "2", "}", ")", "[", "/",
       "\\", "-", ".", "]", "(", "\\", "d", "{", "1", ",", "2", "}", ")",
       "\\", "b" >>,
       << "\\", "b", "(", "\\", "d", "{", "1", ",", "2", "}", ")", "\\", "s",
       "+", "(", "j", "a", "n", "|", "f", "e", "b", "|", "m", "a", "r", "|",
       "a", "p", "r", "|", "m", "a", "y", "|", "m", "e", "i", "|", "j", "u",
       "n", "|", "j", "u", "l", "|", "a", "u", "g", "|", "a", "g", "u", "|",
       "s", "e", "p", "|", "o", "c", "t", "|", "o", "k", "t", "|", "n", "o",
       "v", "|", "d", "e", "c", "|", "d", "e", "s", ")", "\\", "w", "*",
       "\\", "s", "+", "(", "\\", "d", "{", "4", "}", ")", "\\", "b" >>,
       << "\\", "b", "(", "\\", "d", "{", "1", ",", "2", "}", ")", "\\", "s",
       "+", "(", "j", "a", "n", "u", "a", "r", "y", "|", "f", "e", "b", "r",
       "u", "a", "r", "y", "|", "m", "a", "r", "c", "h", "|", "a", "p", "r",
       "i", "l", "|", "m", "a", "y", "|", "j", "u", "n", "e", "|", "j", "u",
       "l", "y", "|", "a", "u", "g", "u", "s", "t", "|", "s", "e", "p", "t",
       "e", "m", "b", "e", "r", "|", "o", "c", "t", "o", "b", "e", "r", "|",
       "n", "o", "v", "e", "m", "b", "e", "r", "|", "d", "e", "c", "e", "m",
       "b", "e", "r", ")", "\\", "s", "+", "(", "\\", "d", "{", "4", "}",
       ")", "\\", "b" >> >>

\* the alternatives of group 2 of the third and of the fourth pattern
MonthAbbreviations ==
    << <<"j", "a", "n">>, <<"f", "e", "b">>, <<"m", "a", "r">>, <<"a", "p", "r">>, <<"m", "a", "y">>, <<"m", "e", "i">>, <<"j", "u", "n">>, <<"j", "u", "l">>, <<"a", "u", "g">>, <<"a", "g", "u">>, <<"s", "e", "p">>, <<"o", "c", "t">>, <<"o", "k", "t">>, <<"n", "o", "v">>, <<"d", "e", "c">>, <<"d", "e", "s">> >>

MonthNames ==
    << <<"j", "a", "n", "u", "a", "r", "y">>,
       <<"f", "e", "b", "r", "u", "a", "r", "y">>,
       <<"m", "a", "r", "c", "h">>,
       <<"a", "p", "r", "i", "l">>,
       <<"m", "a", "y">>,
       <<"j", "u", "n", "e">>,
       <<"j", "u", "l", "y">>,
       <<"a", "u", "g", "u", "s", "t">>,
       <<"s", "e", "p", "t", "e", "m", "b", "e", "r">>,
       <<"o", "c", "t", "o", "b", "e", "r">>,
       <<"n", "o", "v", "e", "m", "b", "e", "r">>,
       <<"d", "e", "c", "e", "m", "b", "e", "r">> >>

\* MONTH_MAP as the set of its <<key, value>> items
MONTH_MAP ==
    { <<<<"j", "a", "n">>, 1>>,
      <<<<"j", "a", "n", "u", "a", "r", "y">>, 1>>,
      <<<<"j", "a", "n", "u", "a", "r", "i">>, 1>>,
      <<<<"f", "e", "b">>, 2>>,
      <<<<"f", "e", "b", "r", "u", "a", "r", "y">>, 2>>,
      <<<<"f", "e", "b", "r", "u", "a", "r", "i">>, 2>>,
      <<<<"m", "a", "r">>, 3>>,
      <<<<"m", "a", "r", "c", "h">>, 3>>,
      <<<<"m", "a", "r", "e", "t">>, 3>>,
      <<<<"a", "p", "r">>, 4>>,
      <<<<"a", "p", "r", "i", "l">>, 4>>,
      <<<<"m", "a", "y">>, 5>>,
      <<<<"m", "e", "i">>, 5>>,
      <<<<"j", "u", "n">>, 6>>,
      <<<<"j", "u", "n", "e">>, 6>>,
      <<<<"j", "u", "n", "i">>, 6>>,
      <<<<"j", "u", "l">>, 7>>,
      <<<<"j", "u", "l", "y">>, 7>>,
      <<<<"j", "u", "l", "i">>, 7>>,
      <<<<"a", "u", "g">>, 8>>,
      <<<<"a", "u", "g", "u", "s", "t">>, 8>>,
      <<<<"a", "g", "u">>, 8>>,
      <<<<"a", "g", "u", "s", "t", "u", "s">>, 8>>,
      <<<<"s", "e", "p">>, 9>>,
      <<<<"s", "e", "p", "t", "e", "m", "b", "e", "r">>, 9>>,
      <<<<"o", "c", "t">>, 10>>,
      <<<<"o", "c", "t", "o", "b", "e", "r">>, 10>>,
      <<<<"o", "k", "t">>, 10>>,
      <<<<"o", "k", "t", "o", "b", "e", "r">>, 10>>,
      <<<<"n", "o", "v">>, 11>>,
      <<<<"n", "o", "v", "e", "m", "b", "e", "r">>, 11>>,
      <<<<"d", "e", "c">>, 12>>,
      <<<<"d", "e", "c", "e", "m", "b", "e", "r">>, 12>>,
      <<<<"d", "e", "s">>, 12>>,
      <<<<"d", "e", "s", "e", "m", "b", "e", "r">>, 12>> }

\* MONTH_MAP.get(month_str): None for a missing key
MONTH_MAP_get(month_str) ==
    IF \E kv \in MONTH_MAP : kv[1] = month_str
    THEN (CHOOSE kv \in MONTH_MAP : kv[1] = month_str)[2]
    ELSE 0

(***************************************************************************)
(* re.search of the date patterns.  A match is the leftmost start at which *)
(* the pattern can match; among the matches at that start the greedy       *)
(* quantifiers prefer the longer repetition, the leftmost quantifier first.*)
(***************************************************************************)
CharAt(s, k) == IF k \in 1..Len(s) THEN s[k] ELSE ""

\* \b between position k and position k + 1
WordBoundary(s, k) == IsWord(CharAt(s, k)) # IsWord(CharAt(s, k + 1))

\* \d{n} at position i
DigitsAt(s, i, n) == \A k \in i..(i + n - 1) : IsDigit(CharAt(s, k))

\* [/\-.]
IsDateSeparator(c) == c \in {"/", "-", "."}

RECURSIVE SpaceRun(_, _)
\* the length of the run \s* takes at position k
SpaceRun(s, k) == IF IsSpace(CharAt(s, k)) THEN 1 + SpaceRun(s, k + 1) ELSE 0

RECURSIVE WordRun(_, _)
\* the length of the run \w* takes at position k
WordRun(s, k) == IF IsWord(CharAt(s, k)) THEN 1 + WordRun(s, k + 1) ELSE 0

NoMatch == [found |-> FALSE, group0 |-> <<>>, groups |-> <<>>]

\* \b(\d{a})[/\-.](\d{b})[/\-.](\d{c})\b at position i
NumericAt(s, i, a, b, c) ==
    /\ WordBoundary(s, i - 1)
    /\ DigitsAt(s, i, a)
    /\ IsDateSeparator(CharAt(s, i + a))
    /\ DigitsAt(s, i + a + 1, b)
    /\ IsDateSeparator(CharAt(s, i + a + b + 1))
    /\ DigitsAt(s, i + a + b + 2, c)
    /\ WordBoundary(s, i + a + b + c + 1)

\* re.search of \b(\d{A})[/\-.](\d{B})[/\-.](\d{C})\b, the widths drawn from
\* A, B and C
\* the leftmost match, and at one position the greedy one
NumericSearch(s, A, B, C) ==
    LET Match(i, a, b, c) ==
            [found |-> TRUE,
             group0 |-> SubSeq(s, i, i + a + b + c + 1),
             groups |-> << SubSeq(s, i, i + a - 1),
                           SubSeq(s, i + a + 1, i + a + b),
                           SubSeq(s, i + a + b + 2, i + a + b + c + 1) >>]
        Prefers(m, x) ==
            \/ m[1] < x[1]
            \/ m[1] = x[1] /\ m[2] > x[2]
            \/ m[1] = x[1] /\ m[2] = x[2] /\ m[3] > x[3]
            \/ m[1] = x[1] /\ m[2] = x[2] /\ m[3] = x[3] /\ m[4] >= x[4]
        First(at) ==
            IF at = {} THEN NoMatch
            ELSE \* the one match every other one comes after
                 LET Matched(m) == Match(m[1], m[2], m[3], m[4])
                 IN  Matched(CHOOSE m \in at : \A x \in at : Prefers(m, x))
    IN  First({m \in (1..Len(s)) \X A \X B \X C : NumericAt(s, m[1], m[2], m[3], m[4])})

\* where the month name ends and where the year starts, for
\* \b(\d{a})\s+(name)\w*\s+(\d{4})\b at position i (tail: the \w* is present)
MonthStart(s, i, a) == i + a + SpaceRun(s, i + a)

MonthEnd(s, i, a, name, tail) ==
    LET q == MonthStart(s, i, a) + Len(name)
    IN  IF tail THEN q + WordRun(s, q) ELSE q

YearStart(s, i, a, name, tail) ==
    LET q == MonthEnd(s, i, a, name, tail) IN q + SpaceRun(s, q)

TextMonthAt(s, i, a, name, tail) ==
    LET At(p, q, y) ==
            /\ WordBoundary(s, i - 1)
            /\ DigitsAt(s, i, a)
            /\ p > i + a
            /\ p + Len(name) - 1 <= Len(s)
            /\ lower(SubSeq(s, p, p + Len(name) - 1)) = name
            /\ y > q
            /\ DigitsAt(s, y, 4)
            /\ WordBoundary(s, y + 3)
    IN  At(MonthStart(s, i, a), MonthEnd(s, i, a, name, tail), YearStart(s, i, a, name, tail))

\* re.search of \b(\d{1,2})\s+(names...)\w*\s+(\d{4})\b, with re.IGNORECASE
\* the leftmost match, at one position the one with the most digits, and
\* of the names that match there the one that comes first in the pattern
TextMonthSearch(s, names, tail) ==
    LET Match(i, a, k, p, y) ==
            [found |-> TRUE,
             group0 |-> SubSeq(s, i, y + 3),
             groups |-> << SubSeq(s, i, i + a - 1),
                           SubSeq(s, p, p + Len(names[k]) - 1),
                           SubSeq(s, y, y + 3) >>]
        Prefers(m, x) ==
            \/ m[1][1] < x[1][1]
            \/ m[1][1] = x[1][1] /\ m[1][2] > x[1][2]
            \/ m[1] = x[1] /\ m[2] <= x[2]
        First(at) ==
            IF at = {} THEN NoMatch
            ELSE LET Matched(i, a, k) ==
                         Match(i, a, k, MonthStart(s, i, a), YearStart(s, i, a, names[k], tail))
                     Chosen(m) == Matched(m[1][1], m[1][2], m[2])
                 IN  Chosen(CHOOSE m \in at : \A x \in at : Prefers(m, x))
        Starts(starts) ==
            First({m \in starts \X (1..Len(names)) :
                       TextMonthAt(s, m[1][1], m[1][2], names[m[2]], tail)})
    IN  Starts({m \in (1..Len(s)) \X {1, 2} :
                    WordBoundary(s, m[1] - 1) /\ DigitsAt(s, m[1], m[2])})

\* re.search(DATE_PATTERNS[k], full_text, re.IGNORECASE)
re_search(k, full_text) ==
    CASE k = 1 -> NumericSearch(full_text, {1, 2}, {1, 2}, {4})
      [] k = 2 -> NumericSearch(full_text, {4}, {1, 2}, {1, 2})
      [] k = 3 -> TextMonthSearch(full_text, MonthAbbreviations, TRUE)
      [] k = 4 -> TextMonthSearch(full_text, MonthNames, FALSE)

(***************************************************************************)
(* datetime.date: a date is <<year, month, day>>; the constructor raises   *)
(* ValueError for a day that is not in the calendar.                       *)
(***************************************************************************)
IsLeap(year) == (year % 4 = 0 /\ year % 100 # 0) \/ year % 400 = 0

DaysInMonth(year, month) ==
    CASE month \in {1, 3, 5, 7, 8, 10, 12} -> 31
      [] month \in {4, 6, 9, 11} -> 30
      [] month = 2 -> IF IsLeap(year) THEN 29 ELSE 28

InCalendar(year, month, day) ==
    /\ year \in 1..9999
    /\ month \in 1..12
    /\ day \in 1..DaysInMonth(year, month)

date(year, month, day) ==
    IF InCalendar(year, month, day)
    THEN [exc |-> "none", v |-> <<year, month, day>>]
    ELSE [exc |-> "ValueError", v |-> None]

\* d < e on dates
DateLess(d, e) ==
    \/ d[1] < e[1]
    \/ d[1] = e[1] /\ d[2] < e[2]
    \/ d[1] = e[1] /\ d[2] = e[2] /\ d[3] < e[3]

(***************************************************************************)
(* DateExtractor                                                           *)
(***************************************************************************)
\* str.isdigit
isdigit(g) == g # <<>> /\ \A i \in 1..Len(g) : IsDigit(g[i])

\* any(month in pattern.lower() for month in ["jan", "feb", "mar"])
IsTextMonthPattern(pattern) ==
    \E month \in {<<"j", "a", "n">>, <<"f", "e", "b">>, <<"m", "a", "r">>} : Contains(lower(pattern), month)

\* str.find, 0-based as in Python, -1 when absent
find(s, needle) ==
    LET at == {i \in 1..(Len(s) - Len(needle) + 1) : SubSeq(s, i, i + Len(needle) - 1) = needle}
    IN  IF at = {} THEN -1 ELSE SetMin(at) - 1

\* the pattern is declared year-first
IsYearFirstPattern(pattern) ==
    Contains(pattern, <<"Y", "Y", "Y", "Y">>) /\ find(pattern, <<"Y", "Y", "Y", "Y">>) = 0

\* what the code finds out about each pattern from its text
PatternKind ==
    [k \in 1..Len(DATE_PATTERNS) |->
        [text_month |-> IsTextMonthPattern(DATE_PATTERNS[k]),
         year_first |-> IsYearFirstPattern(DATE_PATTERNS[k])]]

\* the three numbers read month first
MonthFirst(nums, pattern) == [month |-> nums[1], day |-> nums[2], year |-> nums[3]]

\* the order the three numbers of a numeric pattern are read in; the pattern
\* is given by its position in DATE_PATTERNS
YearFirstWhenDeclared(nums, pattern) ==
    IF PatternKind[pattern].year_first
    THEN [year |-> nums[1], month |-> nums[2], day |-> nums[3]]
    ELSE [day |-> nums[1], month |-> nums[2], year |-> nums[3]]

\* a two-digit year is moved into 1950..2049
WidenYear(year) ==
    IF year < 100 THEN year + (IF year < 50 THEN 2000 ELSE 1900) ELSE year

TextMonthDate(valid_groups) ==
    IF Len(valid_groups) >= 3
    THEN LET day == IntOf(valid_groups[1])
             month_str == lower(valid_groups[2])
             year == IntOf(valid_groups[3])
             Known(month) == IF month # 0 THEN date(year, month, day).v ELSE None
         IN  Known(MONTH_MAP_get(month_str))
    ELSE None

NumericDate(valid_groups, pattern) ==
    LET Read(read) == date(WidenYear(read.year), read.month, read.day).v
        Numbers(nums) ==
            IF Len(nums) >= 3 THEN Read(YearFirstWhenDeclared(nums, pattern)) ELSE None
        Digits(digits) == Numbers([i \in 1..Len(digits) |-> IntOf(digits[i])])
    IN  Digits(SelectSeq(valid_groups, isdigit))

\* the date of a match, None when the match is not a date of the calendar
_parse_date_match(groups, pattern) ==
    IF PatternKind[pattern].text_month THEN TextMonthDate(groups)
    ELSE IF Len(groups) >= 3 THEN NumericDate(groups, pattern)
    ELSE None

\* not in the future and not before 1 January of the fifth year back
_is_valid_date(d) ==
    LET min_date == date(today[1] - 5, 1, 1).v
    IN  ~DateLess(today, d) /\ ~DateLess(d, min_date)

NoDate == [exc |-> "none", raw |-> None, date |-> None]

\* one turn of the loop over DATE_PATTERNS: what the k-th pattern returns,
\* NoDate when the loop goes on
TryDatePattern(k, full_text) ==
    LET Parsed(match, parsed_date) ==
            IF parsed_date # None /\ _is_valid_date(parsed_date)
            THEN [exc |-> "none", raw |-> match.group0, date |-> parsed_date]
            ELSE NoDate
        Searched(match) ==
            IF ~match.found THEN NoDate
            ELSE Parsed(match, _parse_date_match(match.groups, k))
    IN  Searched(re_search(k, full_text))

\* the loop over DATE_PATTERNS: the first pattern that returns decides
TryDatePatterns(full_text) ==
    LET Returning(turns, returning) ==
            IF returning = {} THEN NoDate ELSE turns[SetMin(returning)]
        Turns(turns) ==
            Returning(turns, {k \in 1..Len(DATE_PATTERNS) : turns[k] # NoDate})
    IN  Turns([k \in 1..Len(DATE_PATTERNS) |-> TryDatePattern(k, full_text)])

\* returns (raw_string, parsed_date); joining a text that is not a str raises
DateExtractor_extract(results) ==
    IF ~AllStr(results)
    THEN [exc |-> "TypeError", raw |-> None, date |-> None]
    ELSE TryDatePatterns(join(Texts(results)))

(***************************************************************************)
(* DateExtractor.extract applied to receipts that carry one date.  The     *)
(* variable written records how the date is printed: its form, the digits  *)
(* of day, month and year, the separators, and the text directly before    *)
(* and after it in the same detection.                                     *)
(***************************************************************************)
YearsBack == 6

Todays == {<<2026, 11, 2>>, <<2024, 2, 29>>}

DigitChars == <<"0", "1", "2", "3", "4", "5", "6", "7", "8", "9">>

\* a year as it is printed, four digits
YearText(year) ==
    << DigitChars[(year \div 1000) + 1], DigitChars[((year \div 100) % 10) + 1],
       DigitChars[((year \div 10) % 10) + 1], DigitChars[(year % 10) + 1] >>

YearTexts(now) == {YearText(year) : year \in (now[1] - YearsBack)..(now[1] + 1)}

DayTexts == {<<"1">>, <<"0", "2">>, <<"1", "1">>, <<"2", "9">>, <<"3", "1">>}

MonthTexts == {<<"1">>, <<"0", "2">>, <<"1", "1">>, <<"1", "2">>, <<"1", "3">>}

MonthWords == {<<"J", "a", "n">>, <<"M", "e", "i">>, <<"A", "g", "u", "s", "t", "u", "s">>, <<"F", "E", "B">>, <<"F", "e", "b", "r", "u", "a", "r", "y">>, <<"O", "k", "t">>}

\* text directly before and after the date
Before == {<<>>, <<"T", "a", "n", "g", "g", "a", "l", ":", " ">>, <<"T", "g", "l">>}

After == {<<>>, <<" ", "1", "4", ":", "3", "0">>, <<"W", "I", "B">>}

Written(now) ==
      [form : {"DMY"}, day : DayTexts, month : MonthTexts, year : YearTexts(now),
       sep1 : {"/"}, sep2 : {"/"}, before : Before, after : After, header : {FALSE}]
    \cup
      [form : {"DMY"}, day : DayTexts, month : MonthTexts, year : YearTexts(now),
       sep1 : {"/", "-", "."}, sep2 : {"-", "."}, before : {<<"T", "a", "n", "g", "g", "a", "l", ":", " ">>}, after : {<<>>},
       header : {TRUE}]
    \cup
      [form : {"YMD"}, day : DayTexts, month : MonthTexts, year : YearTexts(now),
       sep1 : {"/", "-", "."}, sep2 : {"/", "-", "."}, before : {<<>>}, after : {<<>>},
       header : {FALSE}]
    \cup
      [form : {"text"}, day : {<<"1">>, <<"1", "1">>, <<"3", "1">>}, month : MonthWords,
       year : YearTexts(now), sep1 : {" "}, sep2 : {" "}, before : {<<>>, <<"T", "g", "l", " ">>},
       after : {<<>>}, header : {FALSE}]
    \cup
      [form : {"none"}, day : {<<>>}, month : {<<>>}, year : {<<>>},
       sep1 : {""}, sep2 : {""}, before : {<<>>, <<"I", "N", "D", "O", "M", "A", "R", "E", "T">>, <<"T", "o", "t", "a", "l", " ", "5", "5", ".", "0", "0", "0">>, <<"1", "4", ":", "3", "0">>},
       after : {<<>>}, header : BOOLEAN]
    \cup
      [form : {"empty"}, day : {<<>>}, month : {<<>>}, year : {<<>>},
       sep1 : {""}, sep2 : {""}, before : {<<>>}, after : {<<>>}, header : {FALSE}]

\* the date as printed, without what surrounds it
DateText(w) ==
    CASE w.form = "YMD" -> w.year \o <<w.sep1>> \o w.month \o <<w.sep2>> \o w.day
      [] w.form \in {"none", "empty"} -> <<>>
      [] OTHER -> w.day \o <<w.sep1>> \o w.month \o <<w.sep2>> \o w.year

\* the detections of the receipt: an optional header, then the date's line;
\* the form "empty" is the receipt without detections
DateReceipt(w) ==
    IF w.form = "empty" THEN <<>>
    ELSE
    Detections((IF w.header THEN << <<<<"I", "N", "D", "O", "M", "A", "R", "E", "T">>, 950, 0>> >> ELSE <<>>)
               \o << <<w.before \o DateText(w) \o w.after, 900, 40>> >>)

InitDate ==
    /\ pc = "start"
    /\ ServiceIdle
    /\ today \in Todays
    /\ written \in Written(today)
    /\ ocr_results = DateReceipt(written)
    /\ date_result = Idle
    /\ top_n_lines = Idle
    /\ merchant_result = Idle
    /\ extraction = Idle
    /\ currency_string = Idle
    /\ parse_result = Idle
    /\ text_lines = Idle
    /\ total_result = Idle

ExtractDate ==
    /\ pc = "start"
    /\ date_result' = DateExtractor_extract(ocr_results)
    /\ pc' = "done"
    /\ UNCHANGED <<currency_string, parse_result, ocr_results, text_lines, total_result,
                   today, written, top_n_lines, merchant_result, extraction,
                   serviceVars>>

NextDate == ExtractDate

SpecDate == InitDate /\ [][NextDate]_vars

(***************************************************************************)
(* Claims about DateExtractor.extract, checked under SpecDate.             *)
(***************************************************************************)
DateDone == pc = "done"

\* the date the receipt carries
WrittenDate == <<IntOf(written.year), IntOf(written.month), IntOf(written.day)>>

WrittenInCalendar ==
    /\ IntOf(written.month) \in 1..12
    /\ IntOf(written.day) >= 1
    /\ IntOf(written.day) <=
           (IF IntOf(written.month) = 2
            THEN (IF IsLeap(IntOf(written.year)) THEN 29 ELSE 28)
            ELSE IF IntOf(written.month) \in {4, 6, 9, 11} THEN 30 ELSE 31)

\* not after today and not more than five years before today
Plausible(d) ==
    /\ ~DateLess(today, d)
    /\ ~DateLess(d, <<today[1] - 5, today[2], today[3]>>)

\* the date stands on its own: no letter, digit or underscore touches it
Delimited ==
    /\ written.before = <<>> \/ ~IsWord(written.before[Len(written.before)])
    /\ written.after = <<>> \/ ~IsWord(written.after[1])

Returned(raw, d) == [exc |-> "none", raw |-> raw, date |-> d]

\* C5: a calendar-valid, plausible date written year-first as YYYY/MM/DD,
\* YYYY-MM-DD or YYYY.MM.DD, alone in the text, is returned as raw together
\* with date(YYYY, MM, DD).
C5_YearFirstRecognised ==
    (/\ DateDone
     /\ written.form = "YMD"
     /\ written.sep1 = written.sep2
     /\ WrittenInCalendar
     /\ Plausible(WrittenDate))
    => date_result = Returned(DateText(written), WrittenDate)

\* C6: every returned date is not after today and not more than five years
\* before today.
C6_ReturnedDateIsPlausible ==
    (DateDone /\ date_result.date # None) => Plausible(date_result.date)

\* C7 as stated: a calendar-valid, plausible D/M/YYYY date that is the only
\* date-shaped substring of the text is read day first, the raw string
\* containing it; text without a date gives (absent, absent).
C7_DayFirstRead ==
    DateDone =>
        /\ (written.form = "DMY" /\ WrittenInCalendar /\ Plausible(WrittenDate))
           => /\ date_result.exc = "none"
              /\ date_result.date = WrittenDate
              /\ date_result.raw # None
              /\ Contains(date_result.raw, DateText(written))
        /\ written.form \in {"none", "empty"} => date_result = NoDate

\* C7 amended: the same, for a date that no letter, digit or underscore
\* directly precedes or follows.
C7_DayFirstReadWhenDelimited ==
    DateDone =>
        /\ (written.form = "DMY" /\ WrittenInCalendar /\ Plausible(WrittenDate) /\ Delimited)
           => /\ date_result.exc = "none"
              /\ date_result.date = WrittenDate
              /\ date_result.raw # None
              /\ Contains(date_result.raw, DateText(written))
        /\ written.form \in {"none", "empty"} => date_result = NoDate

\* a one-digit day and a two-digit month after a label, read day first
C7_Witness ==
    /\ DateDone
    /\ written.form = "DMY"
    /\ written.before = <<"T", "a", "n", "g", "g", "a", "l", ":", " ">>
    /\ written.day = <<"1">>
    /\ written.month = <<"0", "2">>
    /\ Plausible(WrittenDate)
    /\ date_result = Returned(DateText(written), <<IntOf(written.year), 2, 1>>)

(***************************************************************************)
(* MerchantExtractor                                                       *)
(***************************************************************************)
\* ^\d{2}[/\-]\d{2}[/\-]\d{2,4}$
MatchesDate(t) ==
    /\ DigitsAt(t, 1, 2)
    /\ CharAt(t, 3) \in {"/", "-"}
    /\ DigitsAt(t, 4, 2)
    /\ CharAt(t, 6) \in {"/", "-"}
    /\ Len(t) - 6 \in 2..4
    /\ DigitsAt(t, 7, Len(t) - 6)

\* ^\d{2}:\d{2}(:\d{2})?$
MatchesTime(t) ==
    /\ DigitsAt(t, 1, 2)
    /\ CharAt(t, 3) = ":"
    /\ DigitsAt(t, 4, 2)
    /\ \/ Len(t) = 5
       \/ Len(t) = 8 /\ CharAt(t, 6) = ":" /\ DigitsAt(t, 7, 2)

\* ^\+?\d[\d\s\-]{8,}$
MatchesPhone(t) ==
    LET first == IF CharAt(t, 1) = "+" THEN 2 ELSE 1
    IN  /\ IsDigit(CharAt(t, first))
        /\ Len(t) - first >= 8
        /\ \A i \in (first + 1)..Len(t) : IsDigit(t[i]) \/ IsSpace(t[i]) \/ t[i] = "-"

\* ^(label|...)\b
MatchesLabel(t, labels) ==
    \E label \in labels : StartsWith(t, label) /\ WordBoundary(t, Len(label))

\* ^label\s*:
MatchesColonLabel(t, label) ==
    /\ StartsWith(t, label)
    /\ CharAt(t, Len(label) + SpaceRun(t, Len(label) + 1) + 1) = ":"

\* ^[\-=_\*]{3,}$
MatchesSeparator(t) ==
    Len(t) >= 3 /\ \A i \in 1..Len(t) : t[i] \in {"-", "=", "_", "*"}

\* re.match(EXCLUDE_PATTERNS[k], t)
EXCLUDE_PATTERNS(k, t) ==
    CASE k = 1 -> MatchesDate(t)
      [] k = 2 -> MatchesTime(t)
      [] k = 3 -> MatchesPhone(t)
      [] k = 4 -> MatchesLabel(t, {<<"j", "l", ".">>, <<"j", "a", "l", "a", "n">>, <<"a", "l", "a", "m", "a", "t">>, <<"a", "d", "d", "r", "e", "s", "s">>})
      [] k = 5 -> MatchesLabel(t, {<<"t", "e", "l">>, <<"t", "e", "l", "p">>, <<"p", "h", "o", "n", "e">>, <<"h", "p">>, <<"w", "h", "a", "t", "s", "a", "p", "p">>})
      [] k = 6 -> MatchesColonLabel(t, <<"w", "a">>)
      [] k = 7 -> MatchesLabel(t, {<<"n", "p", "w", "p">>, <<"n", "i", "k">>})
      [] k = 8 -> MatchesColonLabel(t, <<"n", "o">>)
      [] k = 9 -> MatchesSeparator(t)
      [] k = 10 -> MatchesLabel(t, {<<"s", "t", "r", "u", "k">>, <<"r", "e", "c", "e", "i", "p", "t">>, <<"i", "n", "v", "o", "i", "c", "e">>, <<"n", "o", "t", "a">>})

_should_exclude(text) ==
    LET text_lower == lower(text)
    IN  \E k \in 1..10 : EXCLUDE_PATTERNS(k, text_lower)

\* str.isupper: some cased character and no lowercase one
isupper(text) ==
    /\ \E i \in 1..Len(text) : IsUpper(text[i])
    /\ \A i \in 1..Len(text) : ~IsLower(text[i])

_score_merchant_candidate(text, result) ==
      (IF isupper(text) /\ Len(text) > 3 THEN 2 ELSE 0)
    + (IF Len(text) >= 3 /\ Len(text) <= 50 THEN 1 ELSE 0)
    + (IF 3 - result.line_index > 0 THEN 3 - result.line_index ELSE 0)
    - (IF isdigit(text) THEN 5 ELSE 0)
    + (IF \E i \in 1..Len(text) : IsAlpha(text[i]) THEN 1 ELSE 0)

\* ocr_results[:n]
Top(results, n) == SubSeq(results, 1, IF n < Len(results) THEN n ELSE Len(results))

\* the detections of the top lines that become candidates
IsCandidate(result) ==
    LET text == strip(result.text)
    IN  Len(text) >= 2 /\ ~_should_exclude(text)

\* the key candidates are sorted by, descending
CandidateKey(result) ==
    <<_score_merchant_candidate(strip(result.text), result), result.confidence>>

\* the order on the score alone
KeyLessByScore(a, b) == a[1] < b[1]

KeyLess(a, b) == a[1] < b[1] \/ (a[1] = b[1] /\ a[2] < b[2])

\* the first candidate after the stable descending sort
BestCandidate(top) ==
    LET cands == {i \in 1..Len(top) : IsCandidate(top[i])}
        best == {i \in cands : \A j \in cands : ~KeyLess(CandidateKey(top[i]), CandidateKey(top[j]))}
    IN  strip(top[SetMin(best)].text)

\* the fallback with the exclusion patterns applied
FallbackNotExcluded(results) ==
    LET first3 == Top(results, 3)
        kept == {i \in 1..Len(first3) :
                    /\ IsStr(first3[i].text)
                    /\ strip(first3[i].text) # <<>>
                    /\ ~_should_exclude(strip(first3[i].text))}
    IN  IF kept = {} THEN None ELSE strip(first3[SetMin(kept)].text)

\* the first non-empty line of the first three
Fallback(results) ==
    LET first3 == Top(results, 3)
        nonempty == {i \in 1..Len(first3) : IsStr(first3[i].text) /\ strip(first3[i].text) # <<>>}
    IN  IF nonempty = {} THEN None ELSE strip(first3[SetMin(nonempty)].text)

\* the first three lines up to the first non-empty one
FallbackVisited(results) ==
    LET first3 == Top(results, 3)
        nonempty == {i \in 1..Len(first3) : IsStr(first3[i].text) /\ strip(first3[i].text) # <<>>}
    IN  IF nonempty = {} THEN first3 ELSE SubSeq(first3, 1, SetMin(nonempty))

\* returns the merchant name; None.strip raises AttributeError
MerchantExtractor_extract(results, top_n) ==
    IF results = <<>> THEN [exc |-> "none", name |-> None]
    ELSE IF ~AllStr(Top(results, top_n)) THEN [exc |-> "AttributeError", name |-> None]
    ELSE IF \E i \in 1..Len(Top(results, top_n)) : IsCandidate(results[i])
         THEN [exc |-> "none", name |-> BestCandidate(Top(results, top_n))]
    ELSE IF ~AllStr(FallbackVisited(results)) THEN [exc |-> "AttributeError", name |-> None]
    ELSE [exc |-> "none", name |-> Fallback(results)]

(***************************************************************************)
(* MerchantExtractor.extract applied to the header of a receipt: the       *)
(* detections are in reading order, line_index counting from 0.            *)
(***************************************************************************)
MaxHeader == 3

HeaderTexts ==
    { <<"I", "N", "D", "O", "M", "A", "R", "E", "T">>, <<"T", "o", "k", "o", " ", "M", "a", "j", "u">>, <<"J", "l", ".", " ", "S", "u", "d", "i", "r", "m", "a", "n", " ", "1", "2", "3">>, <<"J", "a", "l", "a", "n", " ", "S", "u", "d", "i", "r", "m", "a", "n">>,
      <<"1", "1", "/", "0", "1", "/", "2", "0", "2", "6", " ", "1", "4", ":", "3", "0">>, <<"1", "1", "/", "0", "1", "/", "2", "0", "2", "6">>, <<"1", "4", ":", "3", "0">>, <<"T", "e", "l", "p", ":", " ", "0", "2", "1", "-", "5", "5", "5">>,
      <<"0", "8", "1", "2", "-", "3", "4", "5", "6", "-", "7", "8", "9", "0">>, <<"-", "-", "-", "-", "-">>, <<"S", "t", "r", "u", "k">>, <<"7">> }

TopNLines == {2, 5}

InitMerchant ==
    /\ pc = "start"
    /\ ServiceIdle
    /\ ocr_results \in Receipts(HeaderTexts, {900}, {40}, MaxHeader)
    /\ top_n_lines \in TopNLines
    /\ merchant_result = Idle
    /\ currency_string = Idle
    /\ parse_result = Idle
    /\ text_lines = Idle
    /\ total_result = Idle
    /\ today = Idle
    /\ written = Idle
    /\ date_result = Idle
    /\ extraction = Idle

ExtractMerchant ==
    /\ pc = "start"
    /\ merchant_result' = MerchantExtractor_extract(ocr_results, top_n_lines)
    /\ pc' = "done"
    /\ UNCHANGED <<currency_string, parse_result, ocr_results, text_lines, total_result,
                   today, written, date_result, top_n_lines, extraction,
                   serviceVars>>

NextMerchant == ExtractMerchant

SpecMerchant == InitMerchant /\ [][NextMerchant]_vars

(***************************************************************************)
(* Claims about MerchantExtractor.extract, checked under SpecMerchant.     *)
(***************************************************************************)
\* the text with every digit replaced by "d"
Shape(text) == [i \in 1..Len(text) |-> IF IsDigit(text[i]) THEN "d" ELSE text[i]]

IsHeaderDate(text) ==
    Shape(text) \in {<<"d", "d", "/", "d", "d", "/", "d", "d", "d", "d">>, <<"d", "d", "-", "d", "d", "-", "d", "d", "d", "d">>, <<"d", "d", "/", "d", "d", "/", "d", "d">>, <<"d", "d", "-", "d", "d", "-", "d", "d">>}

IsHeaderTime(text) == Shape(text) \in {<<"d", "d", ":", "d", "d">>, <<"d", "d", ":", "d", "d", ":", "d", "d">>}

IsPhoneNumber(text) ==
    /\ Cardinality({i \in 1..Len(text) : IsDigit(text[i])}) >= 9
    /\ \A i \in 1..Len(text) : IsDigit(text[i]) \/ text[i] \in {" ", "-"} \/ (i = 1 /\ text[i] = "+")

IsSeparatorLine(text) ==
    Len(text) >= 3 /\ \A i \in 1..Len(text) : text[i] \in {"-", "=", "_", "*"}

\* the text begins with one of the labels, whatever its case, and the label
\* is not the beginning of a longer word
BeginsWithLabel(text, labels) ==
    \E label \in labels :
        /\ Len(text) >= Len(label)
        /\ lower(SubSeq(text, 1, Len(label))) = label
        /\ ~IsWord(CharAt(text, Len(label) + 1))

AddressLabels == {<<"j", "l", ".">>, <<"j", "a", "l", "a", "n">>, <<"a", "l", "a", "m", "a", "t">>, <<"a", "d", "d", "r", "e", "s", "s">>}

PhoneLabels == {<<"t", "e", "l">>, <<"t", "e", "l", "p">>, <<"p", "h", "o", "n", "e">>, <<"h", "p">>, <<"w", "h", "a", "t", "s", "a", "p", "p">>, <<"w", "a">>}

IdLabels == {<<"n", "p", "w", "p">>, <<"n", "i", "k">>}

DocumentLabels == {<<"s", "t", "r", "u", "k">>, <<"r", "e", "c", "e", "i", "p", "t">>, <<"i", "n", "v", "o", "i", "c", "e">>, <<"n", "o", "t", "a">>}

\* what the exclusion set names
NotAMerchant(text) ==
    \/ IsHeaderDate(text)
    \/ IsHeaderTime(text)
    \/ IsPhoneNumber(text)
    \/ IsSeparatorLine(text)
    \/ BeginsWithLabel(text, AddressLabels \cup PhoneLabels \cup IdLabels \cup DocumentLabels)

\* C8: while one of the first top_n_lines detections is a candidate outside
\* the exclusion set, extract returns no date-shaped, time-shaped or
\* phone-shaped text, no separator line and no text that begins with an
\* address, phone, ID or document-type label; and for the header INDOMARET,
\* Jl. Sudirman 123, 11/01/2026 14:30 it returns INDOMARET.
C8_ExcludedNeverReturned ==
    pc = "done" =>
        LET top == Top(ocr_results, top_n_lines)
        IN  /\ (\E i \in 1..Len(top) :
                    Len(strip(top[i].text)) >= 2 /\ ~NotAMerchant(strip(top[i].text)))
               => /\ merchant_result.exc = "none"
                  /\ merchant_result.name # None
                  /\ ~NotAMerchant(merchant_result.name)
            /\ Texts(ocr_results) = <<<<"I", "N", "D", "O", "M", "A", "R", "E", "T">>, <<"J", "l", ".", " ", "S", "u", "d", "i", "r", "m", "a", "n", " ", "1", "2", "3">>, <<"1", "1", "/", "0", "1", "/", "2", "0", "2", "6", " ", "1", "4", ":", "3", "0">>>>
               => merchant_result.name = <<"I", "N", "D", "O", "M", "A", "R", "E", "T">>

(***************************************************************************)
(* ReceiptExtractor.extract_all                                            *)
(***************************************************************************)
RECURSIVE SumConfidence(_)
\* sum(r.confidence for r in ocr_results), in thousandths
SumConfidence(results) ==
    IF results = <<>> THEN 0
    ELSE results[1].confidence + SumConfidence(Tail(results))

\* the weights exchanged: 0.7 for the OCR average, 0.3 for total extraction
OcrWeighsMore(sum, n, total_confidence) == <<7 * sum + 3 * total_confidence * n, 10 * n>>

\* 0.3 for the OCR average, 0.7 for total extraction, over the common
\* denominator 10 * n
TotalWeighsMore(sum, n, total_confidence) == <<3 * sum + 7 * total_confidence * n, 10 * n>>

\* (ocr_avg_confidence * 0.3) + (total_confidence * 0.7) as the fraction
\* <<numerator, denominator>>, in thousandths
overall_confidence(results, total_confidence) ==
    IF results = <<>> THEN TotalWeighsMore(0, 1, total_confidence)
    ELSE TotalWeighsMore(SumConfidence(results), Len(results), total_confidence)

\* round(x, 3) of a float: the nearest thousandth; where x lies midway between
\* two thousandths the binary sum may lie on either side of the midpoint
round3(x) ==
    LET floor == x[1] \div x[2]
    IN  {s \in {floor, floor + 1} : 2 * Abs(s * x[2] - x[1]) <= x[2]}

TwoDigits(n) == <<DigitChars[(n \div 10) + 1], DigitChars[(n % 10) + 1]>>

\* date.isoformat()
isoformat(d) == YearText(d[1]) \o <<"-">> \o TwoDigits(d[2]) \o <<"-">> \o TwoDigits(d[3])

Aborted(e) ==
    [exc |-> e, merchant_name |-> None, transaction_date_raw |-> None,
     transaction_date |-> None, total_amount_raw |-> None, total_amount_value |-> None,
     confidence_score |-> 0]

\* the dictionaries extract_all can return, or the exception that leaves it
extract_all(results, lines) ==
    LET Fields(merchant, dated, total) ==
            IF merchant.exc # "none" THEN {Aborted(merchant.exc)}
            ELSE IF dated.exc # "none" THEN {Aborted(dated.exc)}
            ELSE IF total.exc # "none" THEN {Aborted(total.exc)}
            ELSE { [exc |-> "none",
                    merchant_name |-> merchant.name,
                    transaction_date_raw |-> dated.raw,
                    transaction_date |->
                        IF dated.date # None THEN isoformat(dated.date) ELSE None,
                    total_amount_raw |-> total.raw,
                    total_amount_value |-> total.value,
                    confidence_score |-> score] :
                   score \in round3(overall_confidence(results, total.confidence)) }
    IN  Fields(MerchantExtractor_extract(results, 5),
               DateExtractor_extract(results),
               TotalAmountExtractor_extract(results, lines))

(***************************************************************************)
(* extract_all applied to what the route hands it: the detections and the  *)
(* lines get_text_lines made of them.  A detection's text may be None, the *)
(* content a caller can put into an OCRResult without the engine.          *)
(***************************************************************************)
MaxFields == 2

FieldConfidences == {0, 905, 1000}

InitExtractAll ==
    /\ pc = "start"
    /\ ServiceIdle
    /\ ocr_results \in Receipts(FieldTexts \cup {None}, FieldConfidences, Gaps, MaxFields)
    /\ today = <<2026, 11, 2>>
    /\ text_lines = Idle
    /\ extraction = Idle
    /\ currency_string = Idle
    /\ parse_result = Idle
    /\ total_result = Idle
    /\ written = Idle
    /\ date_result = Idle
    /\ top_n_lines = Idle
    /\ merchant_result = Idle

ExtractAll ==
    /\ pc = "lines"
    /\ extraction' \in extract_all(ocr_results, text_lines)
    /\ pc' = "done"
    /\ UNCHANGED <<currency_string, parse_result, ocr_results, text_lines, total_result,
                   today, written, date_result, top_n_lines, merchant_result,
                   serviceVars>>

NextExtractAll == GetTextLines \/ ExtractAll

SpecExtractAll == InitExtractAll /\ [][NextExtractAll]_vars

(***************************************************************************)
(* Claims about ReceiptExtractor.extract_all, checked under SpecExtractAll.*)
(***************************************************************************)
\* C9: for a non-empty list of detections with confidences in [0, 1],
\* confidence_score is 0.3 * mean(confidences) + 0.7 * the confidence the
\* total extractor returns for the same input, rounded to the nearest
\* thousandth, and lies in [0, 1].
C9_ConfidenceIsWeightedMean ==
    (pc = "done" /\ ocr_results # <<>> /\ extraction.exc = "none") =>
        LET n == Len(ocr_results)
            sum == SumConfidence(ocr_results)
            total == TotalAmountExtractor_extract(ocr_results, get_text_lines(ocr_results))
            score == extraction.confidence_score
        IN  /\ \A i \in 1..n : ocr_results[i].confidence \in 0..1000
            /\ 2 * Abs(score * 10 * n - (3 * sum + 7 * total.confidence * n)) <= 10 * n
            /\ score \in 0..1000

\* two detections of unequal confidence around a keyword total: the score is
\* neither the mean nor the total extractor's confidence
C9_Witness ==
    /\ pc = "done"
    /\ extraction.exc = "none"
    /\ Len(ocr_results) = 2
    /\ ocr_results[1].confidence = 905
    /\ ocr_results[2].confidence = 1000
    /\ extraction.total_amount_value = <<55000, 0>>
    /\ extraction.confidence_score = 916

HttpError(status_code, error) == [status |-> status_code, error |-> error]

\* except ValueError (170-178) and except Exception (180-189)
Handled(e) ==
    IF e = "ValueError" THEN HttpError(400, "InvalidImageError")
    ELSE HttpError(500, "ProcessingError")

\* load_image_from_bytes: ValueError when imdecode returns None
load_image_from_bytes(upload) ==
    IF upload.image = None THEN [exc |-> "ValueError", image |-> None]
    ELSE [exc |-> "none", image |-> upload.image]

\* ImageConfig, config.py lines 106-107
MAX_WIDTH == 1280
MAX_HEIGHT == 1280

\* 2^p modulo m, by doubling
RECURSIVE PowerOfTwoMod(_, _)
PowerOfTwoMod(p, m) == IF p = 0 THEN 1 % m ELSE (2 * PowerOfTwoMod(p - 1, m)) % m

\* preprocessor.py lines 73-76: scale = min(MAX_WIDTH / width, MAX_HEIGHT / height).
\* The scale is the double nearest to the smaller quotient; it is kept as the
\* pair <<M, m>> of the quotient M / m it was rounded from.
ResizeScale(width, height) ==
    IF MAX_WIDTH * height <= MAX_HEIGHT * width THEN <<MAX_WIDTH, width>>
    ELSE <<MAX_HEIGHT, height>>

\* preprocessor.py lines 77-78: int(x * scale) in double arithmetic, for the
\* scale rounded from M / m with m > M.  The quotient M / m lies in
\* [2^-j, 2^-(j-1)), so its double is a multiple of 2^-(52+j) and misses
\* M / m by rho / (m * 2^(52+j)) when it was rounded down.  The product with
\* x is the whole number q = M * x / m less that error, and it rounds to the
\* double below q when the error exceeds half a step below q.
ScaledDimension(x, scale) ==
    LET M == scale[1]
        m == scale[2]
        q == (M * x) \div m
        Below(j, rho, E) ==
            IF 0 < 2 * rho /\ 2 * rho < m /\ 4 * x * rho > m * 2^(j + E) THEN q - 1 ELSE q
        Truncated(j) ==
            Below(j, ((M % m) * PowerOfTwoMod(52 + j, m)) % m,
                  CHOOSE E \in 0..13 : 2^E >= q /\ (E = 0 \/ 2^(E - 1) < q))
    IN  IF (M * x) % m # 0 \/ q = 0 THEN q
        ELSE Truncated(CHOOSE j \in 0..8 : m <= M * 2^j /\ (j = 0 \/ m > M * 2^(j - 1)))

\* preprocessor.py line 79: cv2.resize(image, (new_width, new_height)); a
\* destination size with a zero side fails cv2's assertion
cv2_resize(image, new_width, new_height) ==
    IF new_width <= 0 \/ new_height <= 0 THEN [exc |-> "cv2.error", image |-> None]
    ELSE [exc |-> "none", image |-> <<new_height, new_width, image[3]>>]

\* ReceiptPreprocessor._validate_and_resize, lines 64-82; an image is its
\* shape <<height, width, channels>>
_validate_and_resize(image) ==
    IF image = None \/ image[1] * image[2] * image[3] = 0
    THEN [exc |-> "ValueError", image |-> None]
    ELSE IF image[2] > MAX_WIDTH \/ image[1] > MAX_HEIGHT
    THEN cv2_resize(image,
                    ScaledDimension(image[2], ResizeScale(image[2], image[1])),
                    ScaledDimension(image[1], ResizeScale(image[2], image[1])))
    ELSE [exc |-> "none", image |-> image]

\* lines 93-119: the content type, the read, the empty check and the decode;
\* the EmptyFile exception is raised inside the try block
ReadFile(upload) ==
    IF upload.content_type \notin {None, <<>>}
       /\ ~StartsWith(upload.content_type, <<"i", "m", "a", "g", "e", "/">>)
    THEN [exc |-> "raised", response |-> HttpError(400, "InvalidFileType")]
    ELSE IF upload.content = <<>>
    THEN [exc |-> "raised", response |-> Handled("HTTPException(400, EmptyFile)")]
    ELSE IF load_image_from_bytes(upload).exc # "none"
    THEN [exc |-> "raised", response |-> Handled(load_image_from_bytes(upload).exc)]
    ELSE [exc |-> "none", response |-> Idle]

\* the answer that changes the confidence of a receipt without text
EmptyResponseHalf ==
    [status |-> 200,
     body |-> [merchant_name |-> None, transaction_date |-> None,
               total_amount_raw |-> None, total_amount_value |-> None,
               confidence_score |-> 500]]

\* lines 129-136
EmptyResponse ==
    [status |-> 200,
     body |-> [merchant_name |-> None, transaction_date |-> None,
               total_amount_raw |-> None, total_amount_value |-> None,
               confidence_score |-> 0]]

RECURSIVE join_lines(_)
\* "\n".join(text_lines)
join_lines(texts) ==
    IF texts = <<>> THEN <<>>
    ELSE IF Len(texts) = 1 THEN texts[1]
    ELSE texts[1] \o <<"\n">> \o join_lines(Tail(texts))

\* ReceiptOCR.get_full_text
get_full_text(results) ==
    LET Joined(lines) == join_lines([i \in 1..Len(lines) |-> join(Texts(lines[i]))])
    IN  Joined(get_text_lines(results))

\* lines 149-168; the processing time is left out
BuildResponse(extracted, debug) ==
    IF extracted.exc # "none" THEN Handled(extracted.exc)
    ELSE IF debug
    THEN [status |-> 200,
          body |-> [merchant_name |-> extracted.merchant_name,
                    transaction_date |-> extracted.transaction_date,
                    transaction_date_raw |-> extracted.transaction_date_raw,
                    total_amount_raw |-> extracted.total_amount_raw,
                    total_amount_value |-> extracted.total_amount_value,
                    confidence_score |-> extracted.confidence_score,
                    ocr_text |-> get_full_text(ocr_results)]]
    ELSE [status |-> 200,
          body |-> [merchant_name |-> extracted.merchant_name,
                    transaction_date |-> extracted.transaction_date,
                    total_amount_raw |-> extracted.total_amount_raw,
                    total_amount_value |-> extracted.total_amount_value,
                    confidence_score |-> extracted.confidence_score]]

(***************************************************************************)
(* Requests to extract_receipt.  The engine's answer for an image is any   *)
(* receipt of the extractors' texts, or an exception of the engine;        *)
(* ocr_results is None until the engine has answered.                      *)
(***************************************************************************)
ContentTypes == {None, <<>>, <<"i", "m", "a", "g", "e", "/", "p", "n", "g">>, <<"t", "e", "x", "t", "/", "p", "l", "a", "i", "n">>}

Uploads ==
    [content_type : ContentTypes, debug : BOOLEAN,
     content : {<<>>}, image : {None}]
    \cup [content_type : ContentTypes, debug : BOOLEAN,
          content : {<<"x">>}, image : {None}]
    \cup [content_type : ContentTypes, debug : BOOLEAN,
          content : {<<"P", "N", "G">>}, image : {<<800, 600, 3>>}]

EngineAnswers ==
    {[exc |-> "none", results |-> r] :
        r \in Receipts(FieldTexts, FieldConfidences, Gaps, MaxFields)}
    \cup {[exc |-> "ImportError", results |-> <<>>]}

InitRoute ==
    /\ pc = "start"
    /\ request \in Uploads
    /\ response = Idle
    /\ stages = <<>>
    /\ ocr_results = None
    /\ text_lines = Idle
    /\ extraction = Idle
    /\ today = <<2026, 11, 2>>
    /\ currency_string = Idle
    /\ parse_result = Idle
    /\ total_result = Idle
    /\ written = Idle
    /\ date_result = Idle
    /\ top_n_lines = Idle
    /\ merchant_result = Idle
    /\ bbox = Idle
    /\ quad = Idle
    /\ amount = Idle
    /\ is_valid = Idle
    /\ photo = Idle
    /\ resized = Idle
    /\ _ocr_engine = Idle
    /\ engines = Idle
    /\ callers = Idle
    /\ handles = Idle

\* what no step of the route changes
routeFrame ==
    <<request, today, currency_string, parse_result, total_result, written, date_result,
      top_n_lines, merchant_result, bbox, quad, amount, is_valid, photo, resized,
      _ocr_engine, engines, callers, handles>>

\* lines 93-119
ReadUpload ==
    /\ pc = "start"
    /\ \E read \in {ReadFile(request)} :
          IF read.exc # "none"
          THEN response' = read.response /\ pc' = "done"
          ELSE response' = response /\ pc' = "loaded"
    /\ UNCHANGED <<stages, ocr_results, text_lines, extraction, routeFrame>>

\* lines 121-123
Preprocess ==
    /\ pc = "loaded"
    /\ stages' = Append(stages, "preprocess")
    /\ \E checked \in {_validate_and_resize(load_image_from_bytes(request).image)} :
          IF checked.exc # "none"
          THEN response' = Handled(checked.exc) /\ pc' = "done"
          ELSE response' = response /\ pc' = "preprocessed"
    /\ UNCHANGED <<ocr_results, text_lines, extraction, routeFrame>>

\* lines 125-136
RunOcr ==
    /\ pc = "preprocessed"
    /\ stages' = Append(stages, "ocr")
    /\ \E answer \in EngineAnswers :
          IF answer.exc # "none"
          THEN ocr_results' = ocr_results /\ response' = Handled(answer.exc) /\ pc' = "done"
          ELSE /\ ocr_results' = answer.results
               /\ IF answer.results = <<>>
                  THEN response' = EmptyResponse /\ pc' = "done"
                  ELSE response' = response /\ pc' = "detected"
    /\ UNCHANGED <<text_lines, extraction, routeFrame>>

\* lines 138-168
ExtractFields ==
    /\ pc = "detected"
    /\ stages' = Append(stages, "extract")
    /\ text_lines' = get_text_lines(ocr_results)
    /\ extraction' \in extract_all(ocr_results, get_text_lines(ocr_results))
    /\ response' = BuildResponse(extraction', request.debug)
    /\ pc' = "done"
    /\ UNCHANGED <<ocr_results, routeFrame>>

NextRoute == ReadUpload \/ Preprocess \/ RunOcr \/ ExtractFields

SpecRoute == InitRoute /\ [][NextRoute]_vars

(***************************************************************************)
(* Claims about extract_receipt, checked under SpecRoute.                  *)
(***************************************************************************)
\* the engine answered for the request and found no text
NoTextFound == pc = "done" /\ ocr_results = <<>>

\* C11: with zero detections TotalAmountExtractor.extract returns (absent,
\* absent, 0.0), extract_all returns the record whose fields are all absent
\* with confidence_score 0.0 and raises nothing, and the route answers a
\* request whose image has no text with the all-absent record and
\* confidence 0.0.
C11_NoDetectionsAllAbsent ==
    NoTextFound =>
        /\ TotalAmountExtractor_extract(ocr_results, get_text_lines(ocr_results))
               = [exc |-> "none", raw |-> None, value |-> None, confidence |-> 0]
        /\ extract_all(ocr_results, get_text_lines(ocr_results))
               = {[exc |-> "none", merchant_name |-> None, transaction_date_raw |-> None,
                   transaction_date |-> None, total_amount_raw |-> None,
                   total_amount_value |-> None, confidence_score |-> 0]}
        /\ response.status = 200
        /\ response.body = [merchant_name |-> None, transaction_date |-> None,
                            total_amount_raw |-> None, total_amount_value |-> None,
                            confidence_score |-> 0]

\* a request with debug set whose image was preprocessed and read, without
\* any text found
C11_Witness ==
    /\ NoTextFound
    /\ request.debug
    /\ stages = <<"preprocess", "ocr">>
    /\ response.status = 200

(***************************************************************************)
(* ReceiptOCR.get_text_lines applied to any list of detections: each has   *)
(* its own center_y and left_x, and line_index tells the detections apart  *)
(* (it is the position in the list handed in).                             *)
(***************************************************************************)
MaxLineInput == 4

CenterYs == {10, 15, 30, 50}

LeftXs == {5, 20}

LineInputs ==
    {[i \in 1..Len(p) |->
        [text |-> <<"x">>, confidence |-> 900, center_y |-> p[i][1], left_x |-> p[i][2],
         line_index |-> i - 1]] :
     p \in UNION {[1..k -> CenterYs \X LeftXs] : k \in 0..MaxLineInput}}

InitLines ==
    /\ pc = "start"
    /\ ServiceIdle
    /\ ocr_results \in LineInputs
    /\ text_lines = Idle
    /\ total_result = Idle
    /\ currency_string = Idle
    /\ parse_result = Idle
    /\ today = Idle
    /\ written = Idle
    /\ date_result = Idle
    /\ top_n_lines = Idle
    /\ merchant_result = Idle
    /\ extraction = Idle

NextLines == GetTextLines

SpecLines == InitLines /\ [][NextLines]_vars

(***************************************************************************)
(* Claims about get_text_lines, checked under SpecLines.                   *)
(***************************************************************************)
LinesDone == pc = "lines"

Ascending(results) ==
    \A i \in 1..(Len(results) - 1) : results[i].center_y <= results[i + 1].center_y

\* the first-assigned member of a line: the one that came first in the input
Anchor(line) ==
    CHOOSE r \in {line[i] : i \in 1..Len(line)} :
        \A i \in 1..Len(line) : r.line_index <= line[i].line_index

Members(line) == {line[i].line_index : i \in 1..Len(line)}

\* C12: for detections in ascending center_y order, every line is a run of
\* consecutive detections, each within the threshold (boundary included) of
\* the detection that started the line, and the detection that starts the
\* next line is farther than the threshold from that anchor; detections at
\* center_y 10 and 15 share a line and one at 50 starts a new line.
C12_AnchoredLines ==
    (LinesDone /\ Ascending(ocr_results)) =>
        /\ \A j \in 1..Len(text_lines) :
              /\ text_lines[j] # <<>>
              /\ \E a, b \in 0..Len(ocr_results) : Members(text_lines[j]) = a..b
              /\ \A i \in 1..Len(text_lines[j]) :
                    Abs(text_lines[j][i].center_y - Anchor(text_lines[j]).center_y) <= 20
              /\ j > 1 =>
                    /\ Anchor(text_lines[j]).line_index
                           = Anchor(text_lines[j - 1]).line_index + Len(text_lines[j - 1])
                    /\ Abs(Anchor(text_lines[j]).center_y
                               - Anchor(text_lines[j - 1]).center_y) > 20
        /\ UNION {Members(text_lines[j]) : j \in 1..Len(text_lines)}
               = 0..(Len(ocr_results) - 1)
        /\ [i \in 1..Len(ocr_results) |-> ocr_results[i].center_y] = <<10, 15, 50>> =>
               /\ Len(text_lines) = 2
               /\ Members(text_lines[1]) = {0, 1}
               /\ Members(text_lines[2]) = {2}

\* detections at 10, 30 and 50: the second is exactly the threshold below the
\* first and joins its line, the third is within the threshold of the second
\* but not of the anchor and starts a new line
C12_Witness ==
    /\ LinesDone
    /\ [i \in 1..Len(ocr_results) |-> ocr_results[i].center_y] = <<10, 30, 50>>
    /\ Len(text_lines) = 2
    /\ Members(text_lines[1]) = {0, 1}

\* the same detections, each one only once
Bag(results) == {results[i] : i \in 1..Len(results)}

RECURSIVE Flat(_)
Flat(lines) == IF lines = <<>> THEN <<>> ELSE lines[1] \o Flat(Tail(lines))

\* C13: for every input list no line is empty, every detection is in exactly
\* one line, each line is in non-decreasing left_x order, for input in
\* ascending center_y order the lines are in ascending order of the center_y
\* of their first-assigned member, and an empty input gives no lines.
C13_LinesPartitionInput ==
    LinesDone =>
        /\ \A j \in 1..Len(text_lines) : text_lines[j] # <<>>
        /\ Len(Flat(text_lines)) = Len(ocr_results)
        /\ Bag(Flat(text_lines)) = Bag(ocr_results)
        /\ \A j \in 1..Len(text_lines) :
              \A i \in 1..(Len(text_lines[j]) - 1) :
                  text_lines[j][i].left_x <= text_lines[j][i + 1].left_x
        /\ Ascending(ocr_results) =>
              \A j \in 1..(Len(text_lines) - 1) :
                  Anchor(text_lines[j]).center_y < Anchor(text_lines[j + 1]).center_y
        /\ ocr_results = <<>> => text_lines = <<>>

\* an input that is not in center_y order, whose last line holds two
\* detections that arrived right to left
C13_Witness ==
    /\ LinesDone
    /\ ~Ascending(ocr_results)
    /\ Len(text_lines) >= 2
    /\ \E j \in 1..Len(text_lines) :
          /\ Len(text_lines[j]) = 2
          /\ text_lines[j][1].line_index > text_lines[j][2].line_index

(***************************************************************************)
(* OCRResult._normalize_bbox.  A bbox value is [type, n, items]: type is   *)
(* its Python type, n its value when it is an int, items its elements when *)
(* it is a list, a tuple, a str or an ndarray.  An element is [kind, v,    *)
(* items]: a number v (kind "num"), a point with the coordinates items     *)
(* (kind "list" or "tuple"), or a one-letter str (kind "str").  A quad is  *)
(* a sequence of points <<x, y>>.                                          *)
(***************************************************************************)
ZeroQuad == << <<0, 0>>, <<0, 0>>, <<0, 0>>, <<0, 0>> >>

\* bool(bbox)
BboxTruthy(b) ==
    CASE b.type \in {"NoneType"} -> FALSE
      [] b.type = "int" -> b.n # 0
      [] OTHER -> b.items # <<>>

\* ndarray.tolist(): a list of numbers or of lists
tolist(b) == [b EXCEPT !.type = "list"]

\* [float(p[0]), float(p[1])]: TypeError for a number, ValueError for a
\* letter, IndexError for a point with fewer than two coordinates
PointOf(p) ==
    CASE p.kind = "num" -> [exc |-> "TypeError", v |-> None]
      [] p.kind = "str" -> [exc |-> "ValueError", v |-> None]
      [] Len(p.items) < 2 -> [exc |-> "IndexError", v |-> None]
      [] OTHER -> [exc |-> "none", v |-> <<p.items[1], p.items[2]>>]

\* float(v): TypeError for a list or tuple, ValueError for a letter
FloatOf(e) ==
    CASE e.kind = "num" -> [exc |-> "none", v |-> e.v]
      [] e.kind = "str" -> [exc |-> "ValueError", v |-> None]
      [] OTHER -> [exc |-> "TypeError", v |-> None]

\* a comprehension over converted elements: the first exception leaves it
Converted(rs) ==
    IF \E i \in 1..Len(rs) : rs[i].exc # "none"
    THEN [exc |-> rs[CHOOSE i \in 1..Len(rs) :
                         rs[i].exc # "none" /\ \A j \in 1..(i - 1) : rs[j].exc = "none"].exc,
          v |-> None]
    ELSE [exc |-> "none", v |-> [i \in 1..Len(rs) |-> rs[i].v]]

\* lines 46-50
PointList(items) == Converted([i \in 1..4 |-> PointOf(items[i])])

\* lines 53-59
FlatList(items) ==
    LET Pairs(c) ==
            IF c.exc # "none" THEN c
            ELSE [exc |-> "none",
                  v |-> << <<c.v[1], c.v[2]>>, <<c.v[3], c.v[4]>>,
                           <<c.v[5], c.v[6]>>, <<c.v[7], c.v[8]>> >>]
    IN  Pairs(Converted([i \in 1..8 |-> FloatOf(items[i])]))

\* lines 62-64
Box(items) ==
    LET Corners(c) ==
            IF c.exc # "none" THEN c
            ELSE [exc |-> "none",
                  v |-> << <<c.v[1], c.v[2]>>, <<c.v[3], c.v[2]>>,
                           <<c.v[3], c.v[4]>>, <<c.v[1], c.v[4]>> >>]
    IN  Corners(Converted([i \in 1..4 |-> FloatOf(items[i])]))

\* the try block, lines 38-67
NormalizeTry(bbox0) ==
    LET Normalize(b) ==
            IF ~BboxTruthy(b) THEN [exc |-> "none", v |-> ZeroQuad]
            ELSE IF b.type = "list" /\ Len(b.items) >= 4
                    /\ b.items[1].kind \in {"list", "tuple"}
                    /\ Len(b.items[1].items) >= 2
            THEN PointList(b.items)
            ELSE IF b.type = "list" /\ Len(b.items) >= 8 THEN FlatList(b.items)
            ELSE IF b.type = "list" /\ Len(b.items) = 4 THEN Box(b.items)
            ELSE [exc |-> "none", v |-> ZeroQuad]
    IN  Normalize(IF bbox0.type = "ndarray" THEN tolist(bbox0) ELSE bbox0)

\* except Exception, lines 69-71
ExceptException(r) == IF r.exc # "none" THEN [exc |-> "none", v |-> ZeroQuad] ELSE r

_normalize_bbox(bbox0) == ExceptException(NormalizeTry(bbox0))

(***************************************************************************)
(* Constructions of an OCRResult: the bbox is None, an int, a str, a dict, *)
(* or a list, tuple or ndarray of up to MaxBbox elements that are all of   *)
(* one kind, or all but one.  The element at position i carries numbers    *)
(* that tell the positions apart.                                          *)
(***************************************************************************)
MaxBbox == 9

ElementKinds == {"num", "list", "tuple", "long", "short", "str"}

ElementAt(kind, i) ==
    CASE kind = "num" -> [kind |-> "num", v |-> i, items |-> <<>>]
      [] kind = "list" -> [kind |-> "list", v |-> 0, items |-> <<10 * i + 1, 10 * i + 2>>]
      [] kind = "tuple" -> [kind |-> "tuple", v |-> 0, items |-> <<10 * i + 1, 10 * i + 2>>]
      [] kind = "long" ->
             [kind |-> "list", v |-> 0, items |-> <<10 * i + 1, 10 * i + 2, 10 * i + 3>>]
      [] kind = "short" -> [kind |-> "list", v |-> 0, items |-> <<10 * i + 1>>]
      [] kind = "str" -> [kind |-> "str", v |-> 0, items |-> <<>>]

Uniform(kind, n) == [i \in 1..n |-> ElementAt(kind, i)]

ElementLists ==
    {Uniform(kind, n) : kind \in ElementKinds, n \in 0..MaxBbox}
    \cup {[Uniform(c[1], c[2]) EXCEPT ![c[3]] = ElementAt(c[4], c[3])] :
             c \in {x \in ElementKinds \X (1..MaxBbox) \X (1..MaxBbox) \X ElementKinds :
                        x[3] <= x[2] /\ x[4] # x[1]}}

Bboxes ==
    {[type |-> "NoneType", n |-> 0, items |-> <<>>],
     [type |-> "int", n |-> 0, items |-> <<>>],
     [type |-> "int", n |-> 5, items |-> <<>>],
     [type |-> "dict", n |-> 0, items |-> <<ElementAt("num", 1)>>],
     [type |-> "str", n |-> 0, items |-> Uniform("str", 4)]}
    \cup {[type |-> t, n |-> 0, items |-> l] : t \in {"list", "tuple"}, l \in ElementLists}
    \cup {[type |-> "ndarray", n |-> 0, items |-> Uniform(kind, k)] :
             kind \in {"num", "list", "long"}, k \in 0..MaxBbox}

InitBbox ==
    /\ pc = "start"
    /\ bbox \in Bboxes
    /\ quad = Idle
    /\ request = Idle
    /\ response = Idle
    /\ stages = Idle
    /\ amount = Idle
    /\ is_valid = Idle
    /\ photo = Idle
    /\ resized = Idle
    /\ _ocr_engine = Idle
    /\ engines = Idle
    /\ callers = Idle
    /\ handles = Idle
    /\ ocr_results = Idle
    /\ text_lines = Idle
    /\ total_result = Idle
    /\ currency_string = Idle
    /\ parse_result = Idle
    /\ today = Idle
    /\ written = Idle
    /\ date_result = Idle
    /\ top_n_lines = Idle
    /\ merchant_result = Idle
    /\ extraction = Idle

\* OCRResult.__init__, line 32
Construct ==
    /\ pc = "start"
    /\ quad' = _normalize_bbox(bbox)
    /\ pc' = "done"
    /\ UNCHANGED <<extractorVars, request, response, stages, bbox, amount, is_valid,
                   photo, resized, _ocr_engine, engines, callers, handles>>

NextBbox == Construct

SpecBbox == InitBbox /\ [][NextBbox]_vars

(***************************************************************************)
(* Claims about OCRResult._normalize_bbox, checked under SpecBbox.         *)
(***************************************************************************)
Constructed == pc = "done"

\* the elements of a list or array-backed bbox, <<>> for any other value
Listed == IF bbox.type \in {"list", "ndarray"} THEN bbox.items ELSE <<>>

IsPoint(e) == e.kind \in {"list", "tuple"} /\ Len(e.items) >= 2

IsNumber(e) == e.kind = "num"

FirstFour == << <<Listed[1].items[1], Listed[1].items[2]>>,
                <<Listed[2].items[1], Listed[2].items[2]>>,
                <<Listed[3].items[1], Listed[3].items[2]>>,
                <<Listed[4].items[1], Listed[4].items[2]>> >>

ConsecutivePairs == << <<Listed[1].v, Listed[2].v>>, <<Listed[3].v, Listed[4].v>>,
                       <<Listed[5].v, Listed[6].v>>, <<Listed[7].v, Listed[8].v>> >>

BoxCorners == << <<Listed[1].v, Listed[2].v>>, <<Listed[3].v, Listed[2].v>>,
                 <<Listed[3].v, Listed[4].v>>, <<Listed[1].v, Listed[4].v>> >>

FourPoints ==
    /\ quad.exc = "none"
    /\ Len(quad.v) = 4
    /\ \A i \in 1..4 : Len(quad.v[i]) = 2

\* C14 as stated: never raises, always 4 points; a list of at least 4 points
\* gives its first 4, a flat list of 8 numbers the 4 consecutive pairs, a
\* 4-number box its corners, array-backed forms the same, and any other
\* value the zero quadrilateral.
C14_OnlyTheThreeForms ==
    Constructed =>
        /\ FourPoints
        /\ quad.v =
              IF Len(Listed) >= 4 /\ \A i \in 1..Len(Listed) : IsPoint(Listed[i])
              THEN FirstFour
              ELSE IF Len(Listed) = 8 /\ \A i \in 1..8 : IsNumber(Listed[i])
              THEN ConsecutivePairs
              ELSE IF Len(Listed) = 4 /\ \A i \in 1..4 : IsNumber(Listed[i])
              THEN BoxCorners
              ELSE << <<0, 0>>, <<0, 0>>, <<0, 0>>, <<0, 0>> >>

\* C14 amended: never raises, always 4 points; a list that begins with 4
\* points gives those 4 points, a list of at least 8 elements that begins
\* with 8 numbers the 4 consecutive pairs of those 8, a list of exactly 4
\* numbers the corners of the box, array-backed forms the same, and any
\* other value the zero quadrilateral.
C14_QuadOfTheLeadingElements ==
    Constructed =>
        /\ FourPoints
        /\ quad.v =
              IF Len(Listed) >= 4 /\ \A i \in 1..4 : IsPoint(Listed[i])
              THEN FirstFour
              ELSE IF Len(Listed) >= 8 /\ \A i \in 1..8 : IsNumber(Listed[i])
              THEN ConsecutivePairs
              ELSE IF Len(Listed) = 4 /\ \A i \in 1..4 : IsNumber(Listed[i])
              THEN BoxCorners
              ELSE << <<0, 0>>, <<0, 0>>, <<0, 0>>, <<0, 0>> >>

\* a list of 9 numbers was given and its first 8 numbers make the quad
C14_Witness ==
    /\ Constructed
    /\ bbox.type = "list"
    /\ Len(bbox.items) = 9
    /\ \A i \in 1..9 : IsNumber(bbox.items[i])
    /\ quad.v = << <<1, 2>>, <<3, 4>>, <<5, 6>>, <<7, 8>> >>

\* the upload passed the content type check and is empty or no image
InvalidUpload ==
    /\ request.content_type \in {None, <<>>, <<"i", "m", "a", "g", "e", "/", "p", "n", "g">>}
    /\ request.content = <<>> \/ request.image = None

\* C15: an upload that is empty or cannot be decoded ends with the 400
\* invalid-input answer (empty file or invalid image), never the 500
\* processing error, and no stage of the pipeline runs for it.
C15_InvalidUploadIsRejectedAs400 ==
    (pc = "done" /\ InvalidUpload) =>
        /\ response.status = 400
        /\ response.error \in {"EmptyFile", "InvalidImageError"}
        /\ stages = <<>>

(***************************************************************************)
(* routes.get_ocr_engine and ReceiptOCR._get_ocr called by several threads *)
(* at once.  Neither function takes a lock, so a thread can be suspended   *)
(* between its test "is None" and its assignment.  engines[e] is the _ocr  *)
(* field of the e-th ReceiptOCR object constructed, handles counts the     *)
(* PaddleOCR objects constructed, and callers[t] is [at, engine, handle]:  *)
(* where thread t stands and what it holds.  None is 0 here: objects are   *)
(* numbered from 1.                                                        *)
(***************************************************************************)
MaxCallers == 3

Threads == 1..MaxCallers

NoObject == 0

InitEngine ==
    /\ pc = "serving"
    /\ _ocr_engine = NoObject
    /\ engines = <<>>
    /\ handles = 0
    /\ callers = [t \in Threads |-> [at |-> "get_ocr_engine", engine |-> NoObject,
                                     handle |-> NoObject]]
    /\ request = Idle
    /\ response = Idle
    /\ stages = Idle
    /\ bbox = Idle
    /\ quad = Idle
    /\ amount = Idle
    /\ is_valid = Idle
    /\ photo = Idle
    /\ resized = Idle
    /\ ocr_results = Idle
    /\ text_lines = Idle
    /\ total_result = Idle
    /\ currency_string = Idle
    /\ parse_result = Idle
    /\ today = Idle
    /\ written = Idle
    /\ date_result = Idle
    /\ top_n_lines = Idle
    /\ merchant_result = Idle
    /\ extraction = Idle

engineFrame == <<pc, extractorVars, request, response, stages, bbox, quad, amount, is_valid,
                 photo, resized>>

\* routes.py line 42: if _ocr_engine is None
TestEngine(t) ==
    /\ callers[t].at = "get_ocr_engine"
    /\ callers' = [callers EXCEPT ![t].at =
                      IF _ocr_engine = NoObject THEN "construct engine" ELSE "return engine"]
    /\ UNCHANGED <<_ocr_engine, engines, handles, engineFrame>>

\* routes.py line 43: _ocr_engine = ReceiptOCR(...), whose _ocr is None
AssignEngine(t) ==
    /\ callers[t].at = "construct engine"
    /\ engines' = Append(engines, NoObject)
    /\ _ocr_engine' = Len(engines) + 1
    /\ callers' = [callers EXCEPT ![t].at = "return engine"]
    /\ UNCHANGED <<handles, engineFrame>>

\* routes.py line 44: return _ocr_engine
ReturnEngine(t) ==
    /\ callers[t].at = "return engine"
    /\ callers' = [callers EXCEPT ![t].at = "_get_ocr", ![t].engine = _ocr_engine]
    /\ UNCHANGED <<_ocr_engine, engines, handles, engineFrame>>

\* ocr_engine.py line 143: if self._ocr is None
TestOcr(t) ==
    /\ callers[t].at = "_get_ocr"
    /\ callers' = [callers EXCEPT ![t].at =
                      IF engines[callers[t].engine] = NoObject
                      THEN "construct ocr" ELSE "return ocr"]
    /\ UNCHANGED <<_ocr_engine, engines, handles, engineFrame>>

\* ocr_engine.py lines 145-151: self._ocr = PaddleOCR(lang=self.lang)
AssignOcr(t) ==
    /\ callers[t].at = "construct ocr"
    /\ handles' = handles + 1
    /\ engines' = [engines EXCEPT ![callers[t].engine] = handles + 1]
    /\ callers' = [callers EXCEPT ![t].at = "return ocr"]
    /\ UNCHANGED <<_ocr_engine, engineFrame>>

\* ocr_engine.py line 156: return self._ocr
ReturnOcr(t) ==
    /\ callers[t].at = "return ocr"
    /\ callers' = [callers EXCEPT ![t].at = "done",
                                  ![t].handle = engines[callers[t].engine]]
    /\ UNCHANGED <<_ocr_engine, engines, handles, engineFrame>>

NextEngine ==
    \E t \in Threads :
        \/ TestEngine(t)
        \/ AssignEngine(t)
        \/ ReturnEngine(t)
        \/ TestOcr(t)
        \/ AssignOcr(t)
        \/ ReturnOcr(t)

SpecEngine == InitEngine /\ [][NextEngine]_vars

MaxNumber == 3

Prefixes ==
    {<<"R", "p">>, <<"r", "P">>, <<"R", "P", ".">>, <<"r", "p", ".">>, <<"I", "D", "R">>, <<"i", "d", "r">>, <<"$">>, <<"U", "S", "D">>, <<"U", "s", "d">>}

Labels == {<<>>, <<"T", "O", "T", "A", "L", " ">>, <<"J", "u", "m", "l", "a", "h", " ", ":", " ">>}

NumberStrings ==
    UNION {[1..k -> RunChars] : k \in 1..MaxNumber}
    \cup {<<"5", "0", ".", "0", "0", "0">>, <<"7", "5", ".", "0", "0", "0">>, <<"1", "0", "0", ".", "0", "0", "0">>, <<"5", "0", ",", "0", "0", "0", ".", "0", "0">>, <<"5", "0", ".", "0", "0", "0", ",", "0", "0">>, <<"1", ".", "2", "3", "4", ".", "5", "6", "7">>}

PrefixedInputs ==
    {[type |-> "str", number |-> s,
      v |-> c[1] \o c[2] \o c[3] \o c[4] \o s \o c[5]] :
        s \in NumberStrings,
        c \in Labels \X {<<>>, <<" ">>} \X Prefixes \X {<<>>, <<" ">>} \X {<<>>, <<" ">>}}

InitPrefix ==
    /\ pc = "start"
    /\ ServiceIdle
    /\ currency_string \in PrefixedInputs
    /\ parse_result = Idle
    /\ ocr_results = Idle
    /\ text_lines = Idle
    /\ total_result = Idle
    /\ today = Idle
    /\ written = Idle
    /\ date_result = Idle
    /\ top_n_lines = Idle
    /\ merchant_result = Idle
    /\ extraction = Idle

NextPrefix == Parse

SpecPrefix == InitPrefix /\ [][NextPrefix]_vars

(***************************************************************************)
(* Claims about currency prefixes, checked under SpecPrefix.               *)
(***************************************************************************)
\* C17: for every number string s and every known prefix p, in any letter
\* case, with optional whitespace around it and an optional non-digit label
\* before it, parse(p + s) returns the value parse(s) returns, and the raw
\* it returns is the input without its surrounding whitespace; "Rp 50.000"
\* gives 50000.0 and raw "Rp 50.000".
C17_PrefixLeavesValue ==
    pc = "done" =>
        /\ parse_result.exc = "none"
        /\ parse_result.value = parse([type |-> "str", v |-> currency_string.number]).value
        /\ IsStripOf(parse_result.raw, currency_string.v)
        /\ currency_string.v = <<"R", "p", " ", "5", "0", ".", "0", "0", "0">> =>
               parse_result = [exc |-> "none", value |-> <<50000, 0>>, raw |-> <<"R", "p", " ", "5", "0", ".", "0", "0", "0">>]

\* a label, a prefix in mixed case between blanks, and a number with a
\* thousands separator: "Jumlah :  rP 75.000"
C17_Witness ==
    /\ pc = "done"
    /\ currency_string.v = <<"J", "u", "m", "l", "a", "h", " ", ":", " ", " ", "r", "P", " ", "7", "5", ".", "0", "0", "0">>
    /\ parse_result.value = <<75000, 0>>
    /\ parse_result.raw = currency_string.v

(***************************************************************************)
(* CurrencyParser.is_valid_amount with its default bounds.  A float is     *)
(* <<n, d>>, the number n * 10^(-d); d is negative for the large ones, and *)
(* |n| stays below 10^4, so that no comparison leaves the integers.        *)
(***************************************************************************)
MaxExponent == 15

\* a <= b on floats; beyond a shift of five digits the signs decide
Leq(a, b) ==
    LET s == a[2] - b[2]
    IN  IF s > 5 THEN (IF b[1] = 0 THEN a[1] <= 0 ELSE b[1] > 0)
        ELSE IF s >= 0 THEN a[1] <= b[1] * Pow10(s)
        ELSE IF s < -5 THEN (IF a[1] = 0 THEN b[1] >= 0 ELSE a[1] < 0)
        ELSE a[1] * Pow10(-s) <= b[1]

\* min_value: float = 0, max_value: float = 1e12
DefaultMinValue == <<0, 0>>

DefaultMaxValue == <<1, -12>>

\* the range test with the maximum left out
is_valid_amount_below_max(value) ==
    IF value = None THEN FALSE
    ELSE /\ Leq(DefaultMinValue, value)
         /\ Leq(value, DefaultMaxValue)
         /\ ~Leq(DefaultMaxValue, value)

is_valid_amount(value) ==
    IF value = None THEN FALSE
    ELSE Leq(DefaultMinValue, value) /\ Leq(value, DefaultMaxValue)

Mantissas ==
    LET large == {99, 100, 101, 999, 1000, 1001, 9999}
    IN  (-12..12) \cup large \cup {-n : n \in large}

AmountValues == {None} \cup (Mantissas \X (-MaxExponent..2))

InitValid ==
    /\ pc = "start"
    /\ currency_string = Idle
    /\ parse_result = Idle
    /\ ocr_results = Idle
    /\ text_lines = Idle
    /\ total_result = Idle
    /\ today = Idle
    /\ written = Idle
    /\ date_result = Idle
    /\ top_n_lines = Idle
    /\ merchant_result = Idle
    /\ extraction = Idle
    /\ request = Idle
    /\ response = Idle
    /\ stages = Idle
    /\ bbox = Idle
    /\ quad = Idle
    /\ amount \in AmountValues
    /\ is_valid = Idle
    /\ photo = Idle
    /\ resized = Idle
    /\ _ocr_engine = Idle
    /\ engines = Idle
    /\ callers = Idle
    /\ handles = Idle

\* CurrencyParser.is_valid_amount(amount)
IsValidAmount ==
    /\ pc = "start"
    /\ pc' = "done"
    /\ is_valid' = is_valid_amount(amount)
    /\ UNCHANGED <<extractorVars, request, response, stages, bbox, quad, amount,
                   photo, resized, _ocr_engine, engines, callers, handles>>

NextValid == IsValidAmount

SpecValid == InitValid /\ [][NextValid]_vars

(***************************************************************************)
(* Claims about is_valid_amount, checked under SpecValid.  The classes of  *)
(* values are told from the decimal digits: n * 10^(-d) with n > 0 has     *)
(* Digits(n) - d digits before the point.                                  *)
(***************************************************************************)
Digits(n) == IF n < 10 THEN 1 ELSE IF n < 100 THEN 2 ELSE IF n < 1000 THEN 3 ELSE 4

Negative(v) == v # None /\ v[1] < 0

\* v >= 10^12: thirteen digits or more before the point
AtLeastTrillion(v) == v # None /\ v[1] > 0 /\ Digits(v[1]) - v[2] >= 13

\* v = 10^12 exactly: a 1 followed by twelve zeros
ExactlyTrillion(v) ==
    v # None /\ v[1] \in {1, 10, 100, 1000} /\ Digits(v[1]) - v[2] = 13

\* 0 <= v < 10^12
BelowTrillion(v) == v # None /\ v[1] >= 0 /\ ~AtLeastTrillion(v)

\* C18 as stated: is_valid_amount is false for None, for every negative
\* value and for every value greater than or equal to 1e12, and true for
\* the positive amounts below 1e12.
C18_RejectsFromTrillion ==
    pc = "done" =>
        /\ amount = None => is_valid = FALSE
        /\ Negative(amount) => is_valid = FALSE
        /\ AtLeastTrillion(amount) => is_valid = FALSE
        /\ (BelowTrillion(amount) /\ amount[1] > 0) => is_valid = TRUE

\* C18 amended: is_valid_amount is false for None, for every negative value
\* and for every value greater than 1e12, and true for every value from 0
\* to 1e12, both included.
C18_RejectsAboveTrillion ==
    pc = "done" =>
        /\ amount = None => is_valid = FALSE
        /\ Negative(amount) => is_valid = FALSE
        /\ (AtLeastTrillion(amount) /\ ~ExactlyTrillion(amount)) => is_valid = FALSE
        /\ (BelowTrillion(amount) \/ ExactlyTrillion(amount)) => is_valid = TRUE

\* the value 1e12 itself was tested and accepted
C18_Witness ==
    /\ pc = "done"
    /\ amount = <<1, -12>>
    /\ is_valid = TRUE

(***************************************************************************)
(* Calls of TotalAmountExtractor._extract_by_keyword on the lines that     *)
(* get_text_lines builds: receipts with a subtotal, a grand total, a       *)
(* discount, two amounts and a quantity.                                   *)
(***************************************************************************)
MaxScanned == 4

KeywordTexts ==
    {<<"S", "u", "b", "t", "o", "t", "a", "l">>, <<"G", "r", "a", "n", "d", " ", "T", "o", "t", "a", "l">>, <<"D", "i", "s", "k", "o", "n">>, <<"1", "0", "0", ".", "0", "0", "0">>, <<"1", "2", "5", ".", "0", "0", "0">>, <<"5", "0">>}

InitKeyword ==
    /\ pc = "start"
    /\ ServiceIdle
    /\ ocr_results \in Receipts(KeywordTexts, {950}, Gaps, MaxScanned)
    /\ text_lines = Idle
    /\ total_result = Idle
    /\ currency_string = Idle
    /\ parse_result = Idle
    /\ today = Idle
    /\ written = Idle
    /\ date_result = Idle
    /\ top_n_lines = Idle
    /\ merchant_result = Idle
    /\ extraction = Idle

\* TotalAmountExtractor._extract_by_keyword(text_lines)
ExtractByKeyword ==
    /\ pc = "lines"
    /\ total_result' = _extract_by_keyword(text_lines)
    /\ pc' = "done"
    /\ UNCHANGED <<currency_string, parse_result, ocr_results, text_lines,
                   today, written, date_result,
                   top_n_lines, merchant_result, extraction,
                   serviceVars>>

NextKeyword == GetTextLines \/ ExtractByKeyword

SpecKeyword == InitKeyword /\ [][NextKeyword]_vars

(***************************************************************************)
(* Claims about the keyword strategy, checked under SpecKeyword.           *)
(***************************************************************************)
\* the line contains an exclusion keyword
Excluded(line) == HasKeyword(EXCLUDE_KEYWORDS, LineText(line))

\* a line the scan stops at: a total keyword and no exclusion keyword
IsKeywordLine(line) == ~Excluded(line) /\ HasKeyword(TOTAL_KEYWORDS, LineText(line))

\* the detections of a line whose parsed value is at least 100
Qualifying(line) == {k \in 1..Len(line) : IsAmount(line[k])}

\* the keyword lines that yield an amount, on themselves or on the line after
Yielding ==
    {i \in 1..Len(text_lines) :
        /\ IsKeywordLine(text_lines[i])
        /\ \/ Qualifying(text_lines[i]) # {}
           \/ i < Len(text_lines) /\ Qualifying(text_lines[i + 1]) # {}}

\* the detection answered with this confidence
AnsweredWith(result, confidence) ==
    total_result = [exc |-> "none", raw |-> result.text,
                    value |-> Amount(result).value, confidence |-> confidence]

GrandTotalBelowSubtotal ==
    /\ Len(text_lines) = 2
    /\ Texts(text_lines[1]) = <<<<"S", "u", "b", "t", "o", "t", "a", "l">>, <<"1", "0", "0", ".", "0", "0", "0">>>>
    /\ Texts(text_lines[2]) = <<<<"G", "r", "a", "n", "d", " ", "T", "o", "t", "a", "l">>, <<"1", "2", "5", ".", "0", "0", "0">>>>

\* C19: the keyword strategy answers from the lowest keyword line (a total
\* keyword, no exclusion keyword) that yields an amount: the rightmost
\* detection of that line whose value is at least 100, with confidence 0.90;
\* only if that line has none, the leftmost such detection of the line
\* immediately after it, with confidence 0.85; no such line, no answer.  A
\* 'Grand Total' line below a 'Subtotal' line, both with amounts, gives the
\* amount of the 'Grand Total' line.
C19_LowestKeywordLineAnswers ==
    pc = "done" =>
        /\ IF Yielding = {} THEN total_result = NoTotal
           ELSE LET i == SetMax(Yielding)
                IN  IF Qualifying(text_lines[i]) # {}
                    THEN AnsweredWith(text_lines[i][SetMax(Qualifying(text_lines[i]))], 900)
                    ELSE AnsweredWith(
                             text_lines[i + 1][SetMin(Qualifying(text_lines[i + 1]))], 850)
        /\ GrandTotalBelowSubtotal =>
               total_result = [exc |-> "none", raw |-> <<"1", "2", "5", ".", "0", "0", "0">>,
                               value |-> <<125000, 0>>, confidence |-> 900]

\* the subtotal above the grand total, each with its amount, was scanned
C19_Witness ==
    /\ pc = "done"
    /\ GrandTotalBelowSubtotal
    /\ total_result.confidence = 900
    /\ total_result.value = <<125000, 0>>

\* the keyword line has only a quantity and the amounts are on the next line
C19_NextLineWitness ==
    /\ pc = "done"
    /\ Len(text_lines) = 2
    /\ Texts(text_lines[1]) = <<<<"G", "r", "a", "n", "d", " ", "T", "o", "t", "a", "l">>, <<"5", "0">>>>
    /\ Texts(text_lines[2]) = <<<<"1", "2", "5", ".", "0", "0", "0">>, <<"1", "0", "0", ".", "0", "0", "0">>>>
    /\ total_result.confidence = 850
    /\ total_result.value = <<125000, 0>>

\* C20: the amount the keyword strategy returns is never read from a line
\* that contains an exclusion keyword: some line without exclusion keyword
\* holds a detection with the returned raw text and value.
C20_NeverFromExcludedLine ==
    (pc = "done" /\ total_result.value # None) =>
        \E i \in 1..Len(text_lines) :
            /\ ~Excluded(text_lines[i])
            /\ \E k \in Qualifying(text_lines[i]) :
                   /\ Amount(text_lines[i][k]).raw = total_result.raw
                   /\ Amount(text_lines[i][k]).value = total_result.value

(***************************************************************************)
(* Calls of TotalAmountExtractor.extract on tall receipts: one detection   *)
(* per line, every line a greeting except two marked ones, whose places    *)
(* are around the start of the bottom part.                                *)
(***************************************************************************)
MaxHeight == 90

Heights == (1..4) \cup {10} \cup ((MaxHeight - 1)..(MaxHeight + 1))

PositionTexts ==
    {<<"1", "5", "0", ".", "0", "0", "0">>, <<"R", "p", " ", "5", "5", ".", "0", "0", "0">>, <<"5", "0">>, <<"D", "i", "s", "k", "o", "n", " ", "5", ".", "0", "0", "0">>, <<"T", "o", "t", "a", "l">>}

\* the places of the marked lines of a receipt of L lines, counted from 1
Marks(L) == {1, (7 * L) \div 10, (7 * L) \div 10 + 1, (7 * L) \div 10 + 2, L} \cap (1..L)

TallReceipt(L, p1, t1, p2, t2) ==
    Detections([i \in 1..L |->
                   <<IF i = p1 THEN t1 ELSE IF i = p2 THEN t2 ELSE <<"T", "h", "a", "n", "k", "s">>, 950, 40>>])

TallReceipts ==
    UNION {{TallReceipt(L, p[1], t[1], p[2], t[2]) :
               p \in {x \in Marks(L) \X Marks(L) : x[1] <= x[2]},
               t \in PositionTexts \X PositionTexts} : L \in Heights}

InitPosition ==
    /\ pc = "start"
    /\ ServiceIdle
    /\ ocr_results \in TallReceipts
    /\ text_lines = Idle
    /\ total_result = Idle
    /\ currency_string = Idle
    /\ parse_result = Idle
    /\ today = Idle
    /\ written = Idle
    /\ date_result = Idle
    /\ top_n_lines = Idle
    /\ merchant_result = Idle
    /\ extraction = Idle

SpecPosition == InitPosition /\ [][NextTotal]_vars

(***************************************************************************)
(* Claims about the position strategy, checked under SpecPosition.         *)
(***************************************************************************)
\* the detections the claim lets the position strategy choose from: those
\* worth at least 100 on the lines with index at least floor(0.7 * L) (the
\* lines from place floor(7L/10) + 1 on) that hold no exclusion keyword
BottomCandidates ==
    {c \in (1..Len(text_lines)) \X (1..1) :
        /\ c[1] >= (7 * Len(text_lines)) \div 10 + 1
        /\ ~Excluded(text_lines[c[1]])
        /\ c[2] \in Qualifying(text_lines[c[1]])}

CandidateValue(c) == Amount(text_lines[c[1]][c[2]]).value

\* C21: the position strategy runs only when the keyword strategy found
\* nothing; it then returns, with confidence 0.75, the largest value of at
\* least 100 among the detections of the lines with index at least
\* floor(0.7 * L) that hold no exclusion keyword, and nothing when there is
\* no such detection.
C21_BottomThirtyPercent ==
    pc = "done" =>
        IF _extract_by_keyword(text_lines).value # None
        THEN total_result.confidence \in {900, 850}
        ELSE IF BottomCandidates = {} THEN total_result.confidence # 750
        ELSE /\ total_result.confidence = 750
             /\ \E c \in BottomCandidates :
                    /\ total_result.value = CandidateValue(c)
                    /\ total_result.raw = Amount(text_lines[c[1]][c[2]]).raw
                    /\ \A o \in BottomCandidates :
                           Geq(CandidateValue(c), CandidateValue(o))

(***************************************************************************)
(* Calls of TotalAmountExtractor.extract on receipts that carry amounts,   *)
(* a transaction ID, a date and a time, and no keyword.                    *)
(***************************************************************************)
FallbackTexts ==
    {<<"1", "5", "0", ".", "0", "0", "0">>, <<"R", "p", " ", "5", "5", ".", "0", "0", "0">>, <<"5", "0">>, <<"A", "B", "1", "2", "3", "4", "5", "6">>, <<"a", "b", "1", "2", "3", "4", "5", "6">>, <<"1", "1", "/", "0", "1", "/", "2", "6">>,
     <<"1", "4", ":", "3", "0">>, <<"T", "h", "a", "n", "k", "s">>}

InitFallback ==
    /\ pc = "start"
    /\ ServiceIdle
    /\ ocr_results \in Receipts(FallbackTexts, {950}, Gaps, MaxDetections)
    /\ text_lines = Idle
    /\ total_result = Idle
    /\ currency_string = Idle
    /\ parse_result = Idle
    /\ today = Idle
    /\ written = Idle
    /\ date_result = Idle
    /\ top_n_lines = Idle
    /\ merchant_result = Idle
    /\ extraction = Idle

SpecFallback == InitFallback /\ [][NextTotal]_vars

(***************************************************************************)
(* Claims about the maximum-value fallback, checked under SpecFallback.    *)
(***************************************************************************)
\* DD/MM/YY or DD/MM/YYYY, HH:MM or HH:MM:SS, capitals then six digits or more
Shaped(text) == DateShaped(text) \/ TimeShaped(text) \/ IdShaped(text)

\* the detections the fallback may answer with
FallbackCandidates ==
    {k \in 1..Len(ocr_results) :
        IsAmount(ocr_results[k]) /\ ~Shaped(ocr_results[k].text)}

MaxDates == 3

\* numeric dates that are in the calendar and plausible today
PlausibleNumeric == {<<"1", "1", "/", "0", "1", "/", "2", "0", "2", "6">>, <<"2", "0", "2", "6", "-", "0", "1", "-", "1", "1">>}

\* dates with the month as a word that are in the calendar and plausible
PlausibleTextual == {<<"5", " ", "M", "e", "i", " ", "2", "0", "2", "6">>, <<"1", "1", " ", "J", "a", "n", "u", "a", "r", "y", " ", "2", "0", "2", "6">>}

\* 31 February, and 1 January 2010
UnusableDates == {<<"3", "1", "/", "0", "2", "/", "2", "0", "2", "6">>, <<"0", "1", "/", "0", "1", "/", "2", "0", "1", "0">>, <<"3", "1", " ", "F", "e", "b", " ", "2", "0", "2", "6">>}

DatePieces == PlausibleNumeric \cup PlausibleTextual \cup UnusableDates \cup {<<"T", "h", "a", "n", "k", "s">>}

InitDateOrder ==
    /\ pc = "start"
    /\ ServiceIdle
    /\ today = <<2026, 11, 2>>
    /\ written = Idle
    /\ ocr_results \in {Detections([i \in 1..Len(pieces) |-> <<pieces[i], 900, 40>>]) :
                           pieces \in UNION {[1..k -> DatePieces] : k \in 0..MaxDates}}
    /\ date_result = Idle
    /\ top_n_lines = Idle
    /\ merchant_result = Idle
    /\ extraction = Idle
    /\ currency_string = Idle
    /\ parse_result = Idle
    /\ text_lines = Idle
    /\ total_result = Idle

SpecDateOrder == InitDateOrder /\ [][NextDate]_vars

(***************************************************************************)
(* Claims about the order of the date patterns, checked under              *)
(* SpecDateOrder.                                                          *)
(***************************************************************************)
\* what the k-th pattern finds in the text of the receipt: its match parses
\* to a date of the calendar that is plausible
PatternQualifies(k) ==
    LET Parsed(parsed_date) == parsed_date # None /\ _is_valid_date(parsed_date)
        Searched(match) == match.found /\ Parsed(_parse_date_match(match.groups, k))
    IN  Searched(re_search(k, join(Texts(ocr_results))))

PatternAnswer(k) ==
    LET Searched(match) ==
            [exc |-> "none", raw |-> match.group0,
             date |-> _parse_date_match(match.groups, k)]
    IN  Searched(re_search(k, join(Texts(ocr_results))))

Carries(dates) == \E i \in 1..Len(ocr_results) : ocr_results[i].text \in dates

\* the first pattern, in the configured order, whose match qualifies gives
\* the result; no such pattern, no date
FirstQualifyingPatternAnswers ==
    LET qualifying == {k \in 1..Len(DATE_PATTERNS) : PatternQualifies(k)}
    IN  IF qualifying = {} THEN date_result = NoDate
        ELSE date_result = PatternAnswer(SetMin(qualifying))

\* C23: extract returns the result of the first pattern, in the configured
\* order, whose match parses to a plausible date of the calendar, and
\* (absent, absent) when there is none; and when a plausible numeric date
\* and a plausible date with the month as a word are both on the receipt,
\* the numeric one is returned, wherever it stands.
C23_NumericBeforeTextual ==
    pc = "done" =>
        /\ FirstQualifyingPatternAnswers
        /\ (Carries(PlausibleNumeric) /\ Carries(PlausibleTextual)) =>
               date_result.raw \in PlausibleNumeric

(***************************************************************************)
(* DateExtractor.extract applied to receipts whose date is printed with a  *)
(* two-digit year.                                                         *)
(***************************************************************************)
ShortYears == {<<"2", "1">>, <<"2", "4">>, <<"2", "6">>, <<"2", "7">>, <<"4", "9">>, <<"5", "0">>, <<"9", "9">>}

WrittenShort ==
    [form : {"DMY"}, day : DayTexts, month : MonthTexts, year : ShortYears,
     sep1 : {"/", "-"}, sep2 : {"/", "-"}, before : {<<>>, <<"T", "a", "n", "g", "g", "a", "l", ":", " ">>}, after : {<<>>},
     header : {FALSE}]

InitShortYear ==
    /\ pc = "start"
    /\ ServiceIdle
    /\ today \in Todays
    /\ written \in WrittenShort
    /\ ocr_results = DateReceipt(written)
    /\ date_result = Idle
    /\ top_n_lines = Idle
    /\ merchant_result = Idle
    /\ extraction = Idle
    /\ currency_string = Idle
    /\ parse_result = Idle
    /\ text_lines = Idle
    /\ total_result = Idle

SpecShortYear == InitShortYear /\ [][NextDate]_vars

(***************************************************************************)
(* Claims about two-digit years, checked under SpecShortYear.              *)
(***************************************************************************)
\* the date the receipt carries, its year yy read as 20yy below 50 and as
\* 19yy from 50 on
WidenedDate ==
    << IntOf(written.year) + (IF IntOf(written.year) < 50 THEN 2000 ELSE 1900),
       IntOf(written.month), IntOf(written.day) >>

WidenedInCalendar ==
    /\ WidenedDate[2] \in 1..12
    /\ WidenedDate[3] >= 1
    /\ WidenedDate[3] <=
           (IF WidenedDate[2] = 2
            THEN (IF IsLeap(WidenedDate[1]) THEN 29 ELSE 28)
            ELSE IF WidenedDate[2] \in {4, 6, 9, 11} THEN 30 ELSE 31)

\* the plausibility check of the code: not after today and not before the
\* first of January of the fifth year back
PassesCheck(d) == ~DateLess(today, d) /\ ~DateLess(d, <<today[1] - 5, 1, 1>>)

\* C24: a numeric date written day/month/yy, in the calendar and passing
\* the plausibility check once its year is widened to 2000 + yy (yy < 50)
\* or 1900 + yy, is returned with that year and with its day and month as
\* written.
C24_TwoDigitYearWidened ==
    (pc = "done" /\ WidenedInCalendar /\ PassesCheck(WidenedDate))
    => date_result = Returned(DateText(written), WidenedDate)

(***************************************************************************)
(* MerchantExtractor.extract applied to headers whose detections differ in *)
(* confidence: store names, a single letter, two letters, a number and a   *)
(* date.                                                                   *)
(***************************************************************************)
ScoredTexts ==
    {<<"I", "N", "D", "O", "M", "A", "R", "E", "T">>, <<"T", "o", "k", "o", " ", "M", "a", "j", "u">>, <<"A">>, <<"B", "B">>, <<"1", "2", "3", "4">>, <<"1", "1", "/", "0", "1", "/", "2", "0", "2", "6">>}

InitScore ==
    /\ pc = "start"
    /\ ServiceIdle
    /\ ocr_results \in Receipts(ScoredTexts, {800, 900}, {40}, MaxHeader)
    /\ top_n_lines \in TopNLines
    /\ merchant_result = Idle
    /\ currency_string = Idle
    /\ parse_result = Idle
    /\ text_lines = Idle
    /\ total_result = Idle
    /\ today = Idle
    /\ written = Idle
    /\ date_result = Idle
    /\ extraction = Idle

SpecScore == InitScore /\ [][NextMerchant]_vars

(***************************************************************************)
(* Claims about the scoring of merchant candidates, checked under          *)
(* SpecScore.                                                              *)
(***************************************************************************)
\* the places of the first topN detections
FirstTopN == 1..(IF top_n_lines < Len(ocr_results) THEN top_n_lines ELSE Len(ocr_results))

StrippedText(i) == strip(ocr_results[i].text)

\* the score of the detection at place i, as the claim adds it up
ClaimedScore(i) ==
    LET t == StrippedText(i)
        letters == {k \in 1..Len(t) : IsAlpha(t[k])}
    IN    (IF letters # {} /\ (\A k \in letters : IsUpper(t[k])) /\ Len(t) > 3 THEN 2 ELSE 0)
        + (IF Len(t) \in 3..50 THEN 1 ELSE 0)
        + (IF ocr_results[i].line_index < 3 THEN 3 - ocr_results[i].line_index ELSE 0)
        + (IF letters # {} THEN 1 ELSE 0)
        - (IF t # <<>> /\ (\A k \in 1..Len(t) : IsDigit(t[k])) THEN 5 ELSE 0)

\* i is ahead of j: a higher score, or the same score and a higher confidence
Ahead(i, j) ==
    \/ ClaimedScore(i) > ClaimedScore(j)
    \/ ClaimedScore(i) = ClaimedScore(j)
           /\ ocr_results[i].confidence > ocr_results[j].confidence

\* the name is the text of a detection of the set that none of the set is
\* ahead of
BestOf(places) ==
    \E i \in places :
        /\ merchant_result = [exc |-> "none", name |-> StrippedText(i)]
        /\ \A j \in places : ~Ahead(j, i)

\* the first topN detections that match no exclusion pattern
Survivors == {i \in FirstTopN : ~_should_exclude(StrippedText(i))}

\* C25 as stated: when one of the first topN detections survives exclusion,
\* extract returns the stripped text of the survivor with the highest score,
\* equal scores being decided by the higher confidence.
C25_BestSurvivor ==
    (pc = "done" /\ Survivors # {}) => BestOf(Survivors)

\* the survivors whose stripped text has two characters or more
LongSurvivors == {i \in Survivors : Len(StrippedText(i)) >= 2}

\* C25 amended: when one of the first topN detections has a stripped text
\* of two characters or more and survives exclusion, extract returns the
\* stripped text of the one of these with the highest score, equal scores
\* being decided by the higher confidence; the detections after the first
\* topN do not matter.
C25_BestLongSurvivor ==
    (pc = "done" /\ LongSurvivors # {}) => BestOf(LongSurvivors)

\* two letters on the first line and a store name on the second have the
\* same score, and the store name was read with the higher confidence
C25_Witness ==
    /\ pc = "done"
    /\ top_n_lines = 2
    /\ Len(ocr_results) = 3
    /\ Texts(ocr_results) = <<<<"B", "B">>, <<"T", "o", "k", "o", " ", "M", "a", "j", "u">>, <<"I", "N", "D", "O", "M", "A", "R", "E", "T">>>>
    /\ ocr_results[1].confidence = 800
    /\ ocr_results[2].confidence = 900
    /\ ClaimedScore(1) = ClaimedScore(2)
    /\ merchant_result.name = <<"T", "o", "k", "o", " ", "M", "a", "j", "u">>

(***************************************************************************)
(* MerchantExtractor.extract applied to headers with few usable texts: a   *)
(* date, an empty text, a single letter and a store name.                  *)
(***************************************************************************)
MaxPoorHeader == 4

PoorTexts == {<<"1", "1", "/", "0", "1", "/", "2", "0", "2", "6">>, <<>>, <<"A">>, <<"T", "o", "k", "o", " ", "M", "a", "j", "u">>}

InitPoorHeader ==
    /\ pc = "start"
    /\ ServiceIdle
    /\ ocr_results \in Receipts(PoorTexts, {900}, {40}, MaxPoorHeader)
    /\ top_n_lines \in TopNLines
    /\ merchant_result = Idle
    /\ currency_string = Idle
    /\ parse_result = Idle
    /\ text_lines = Idle
    /\ total_result = Idle
    /\ today = Idle
    /\ written = Idle
    /\ date_result = Idle
    /\ extraction = Idle

SpecPoorHeader == InitPoorHeader /\ [][NextMerchant]_vars

(***************************************************************************)
(* Claims about the fallback of the merchant extractor, checked under      *)
(* SpecPoorHeader.                                                         *)
(***************************************************************************)
\* the places of the first three detections with a non-empty text
NonEmptyOfFirstThree ==
    {i \in 1..Len(ocr_results) : i <= 3 /\ StrippedText(i) # <<>>}

\* the first non-empty text of the first three detections was returned,
\* nothing when they are all empty
FirstNonEmptyReturned ==
    IF NonEmptyOfFirstThree = {} THEN merchant_result = [exc |-> "none", name |-> None]
    ELSE merchant_result = [exc |-> "none", name |-> StrippedText(SetMin(NonEmptyOfFirstThree))]

AbsentOnlyWithoutText ==
    merchant_result.name = None => NonEmptyOfFirstThree = {}

\* the first topN detections with a text that match no exclusion pattern
Unexcluded == {i \in Survivors : StrippedText(i) # <<>>}

\* C26 as stated: when every one of the first topN detections with a text
\* is excluded, extract returns the first non-empty text of the first three
\* detections, exclusion not applied; otherwise the fallback is not taken
\* and the name is the text of one that is not excluded; the name is absent
\* only without detections or with the first three texts empty.
C26_FallbackWhenAllExcluded ==
    pc = "done" =>
        /\ merchant_result.exc = "none"
        /\ Unexcluded = {} => FirstNonEmptyReturned
        /\ Unexcluded # {} => \E i \in Unexcluded : merchant_result.name = StrippedText(i)
        /\ AbsentOnlyWithoutText

\* C26 amended: when every one of the first topN detections is excluded or
\* has a stripped text shorter than two characters, extract returns the
\* first non-empty text of the first three detections, exclusion not
\* applied; otherwise the fallback is not taken and the name is the text of
\* a detection that is neither; the name is absent only without detections
\* or with the first three texts empty.
C26_FallbackWhenNoCandidate ==
    pc = "done" =>
        /\ merchant_result.exc = "none"
        /\ LongSurvivors = {} => FirstNonEmptyReturned
        /\ LongSurvivors # {} => \E i \in LongSurvivors : merchant_result.name = StrippedText(i)
        /\ AbsentOnlyWithoutText

\* an empty text, then a date twice and a store name on the fourth line:
\* the date was returned although it is excluded
C26_Witness ==
    /\ pc = "done"
    /\ top_n_lines = 2
    /\ Texts(ocr_results) = <<<<>>, <<"1", "1", "/", "0", "1", "/", "2", "0", "2", "6">>, <<"1", "1", "/", "0", "1", "/", "2", "0", "2", "6">>, <<"T", "o", "k", "o", " ", "M", "a", "j", "u">>>>
    /\ merchant_result = [exc |-> "none", name |-> <<"1", "1", "/", "0", "1", "/", "2", "0", "2", "6">>]

(***************************************************************************)
(* Calls of CurrencyParser.parse with text after the number: the argument  *)
(* is an optional label or prefix, a run of digits and separators that     *)
(* begins with a digit, and text that begins with a character outside the  *)
(* run; its field number records the run, its field rest what follows.     *)
(***************************************************************************)
LeadingRuns ==
    {r \in UNION {[1..k -> RunChars] : k \in 1..MaxNumber} : IsDigit(r[1])}
    \cup {<<"5", "0", ".", "0", "0", "0">>, <<"1", "5", "0", ".", "0", "0", "0">>, <<"5", "0", ",", "0", "0", "0", ".", "0", "0">>, <<"5", "0", ".", "0", "0", "0", ",", "0", "0">>, <<"1", ".", "2", "3", "4", ".", "5", "6", "7">>}

TextsBefore == {<<>>, <<"R", "p", " ">>, <<"T", "o", "t", "a", "l", ":", " ">>}

TextsAfter == {<<>>, <<"a">>, <<"/", "p", "c", "s">>, <<"x", "2">>, <<" ", "x", " ", "2">>, <<" ", "(", "2", " ", "i", "t", "e", "m", ")">>}

TrailedInputs ==
    {[type |-> "str", number |-> c[2], rest |-> c[3], v |-> c[1] \o c[2] \o c[3]] :
        c \in TextsBefore \X LeadingRuns \X TextsAfter}

InitTrailing ==
    /\ pc = "start"
    /\ ServiceIdle
    /\ currency_string \in TrailedInputs
    /\ parse_result = Idle
    /\ ocr_results = Idle
    /\ text_lines = Idle
    /\ total_result = Idle
    /\ today = Idle
    /\ written = Idle
    /\ date_result = Idle
    /\ top_n_lines = Idle
    /\ merchant_result = Idle
    /\ extraction = Idle

SpecTrailing == InitTrailing /\ [][NextPrefix]_vars

(***************************************************************************)
(* Claims about the text after the number, checked under SpecTrailing.     *)
(***************************************************************************)
\* the value of the run alone
RunValue == parse([type |-> "str", v |-> currency_string.number]).value

DigitFollows == \E k \in 1..Len(currency_string.rest) : IsDigit(currency_string.rest[k])

\* C27 as stated: the value parse returns is the value of the leading run
\* of digits and separators, whatever characters follow the run.
C27_LeadingRunDecides ==
    pc = "done" => (parse_result.exc = "none" /\ parse_result.value = RunValue)

\* C27 amended: the value parse returns is the value of the leading run of
\* digits and separators when no digit stands among the characters that
\* follow the run; when one does, parse returns no value.
C27_LeadingRunUnlessDigitFollows ==
    pc = "done" =>
        /\ parse_result.exc = "none"
        /\ ~DigitFollows => parse_result.value = RunValue
        /\ DigitFollows => parse_result.value = None

\* "Rp 50.000/pcs" is worth 50000.0
C27_Witness ==
    /\ pc = "done"
    /\ currency_string.v = <<"R", "p", " ", "5", "0", ".", "0", "0", "0", "/", "p", "c", "s">>
    /\ currency_string.number = <<"5", "0", ".", "0", "0", "0">>
    /\ parse_result.value = <<50000, 0>>

(***************************************************************************)
(* The resize step on its own: ReceiptPreprocessor._validate_and_resize is *)
(* given one image and returns.  Images are drawn with sides around the    *)
(* configured maximum and far above it.                                    *)
(***************************************************************************)
MaxSide == 4000

Sides == {0, 1, 2, 3, 640, 1279, 1280, 1281, 1952, 2139, 2560, MaxSide}

Photos == {None} \cup {<<height, width, 3>> : height \in Sides, width \in Sides}

InitResize ==
    /\ pc = "start"
    /\ photo \in Photos
    /\ resized = Idle
    /\ currency_string = Idle
    /\ parse_result = Idle
    /\ ocr_results = Idle
    /\ text_lines = Idle
    /\ total_result = Idle
    /\ today = Idle
    /\ written = Idle
    /\ date_result = Idle
    /\ top_n_lines = Idle
    /\ merchant_result = Idle
    /\ extraction = Idle
    /\ request = Idle
    /\ response = Idle
    /\ stages = Idle
    /\ bbox = Idle
    /\ quad = Idle
    /\ amount = Idle
    /\ is_valid = Idle
    /\ _ocr_engine = Idle
    /\ engines = Idle
    /\ callers = Idle
    /\ handles = Idle

\* ReceiptPreprocessor._validate_and_resize(image)
ValidateAndResize ==
    /\ pc = "start"
    /\ pc' = "done"
    /\ resized' = _validate_and_resize(photo)
    /\ UNCHANGED <<extractorVars, request, response, stages, bbox, quad, amount, is_valid,
                   photo, _ocr_engine, engines, callers, handles>>

NextResize == ValidateAndResize

SpecResize == InitResize /\ [][NextResize]_vars

(***************************************************************************)
(* Claims about the resize step, checked under SpecResize.                 *)
(***************************************************************************)
NonEmptyPhoto == photo # None /\ photo[1] > 0 /\ photo[2] > 0

WithinMaximum == photo[2] <= MAX_WIDTH /\ photo[1] <= MAX_HEIGHT

\* the side "after" is the side "before" multiplied by the smaller of
\* MAX_WIDTH / width and MAX_HEIGHT / height, cut to a whole number; the double
\* product may fall one short of the exact one
AtSingleScale(before, after) ==
    IF MAX_WIDTH * photo[1] <= MAX_HEIGHT * photo[2]
    THEN after * photo[2] <= MAX_WIDTH * before
         /\ after * photo[2] > MAX_WIDTH * before - 2 * photo[2]
    ELSE after * photo[1] <= MAX_HEIGHT * before
         /\ after * photo[1] > MAX_HEIGHT * before - 2 * photo[1]

\* C28: the resize step returns a non-empty image unchanged when its width
\* and height are both within the maximum; for an image with a side above
\* the maximum it returns an image whose width and height are both at least 1
\* and at most the maximum, each the original side multiplied by the single
\* scale min(MAX_WIDTH / width, MAX_HEIGHT / height).
C28_ResizedWithinMaximum ==
    (pc = "done" /\ NonEmptyPhoto) =>
        IF WithinMaximum THEN resized = [exc |-> "none", image |-> photo]
        ELSE /\ resized.exc = "none"
             /\ resized.image[2] \in 1..MAX_WIDTH
             /\ resized.image[1] \in 1..MAX_HEIGHT
             /\ AtSingleScale(photo[2], resized.image[2])
             /\ AtSingleScale(photo[1], resized.image[1])

(***************************************************************************)
(* Calls of CurrencyParser.parse with text before the number: a minus      *)
(* sign, another sign, a label or a prefix, none of it a digit, then a     *)
(* number string that starts with a digit.                                 *)
(***************************************************************************)
Leads ==
    {<<>>, <<"-">>, <<"-", " ">>, <<" ", "-">>, <<"-", "-">>, <<"+">>, <<"(", "-">>, <<"R", "p", " ", "-">>, <<"-", "R", "p", " ">>, <<"T", "o", "t", "a", "l", ":", " ", "-">>,
     <<"x", " ", "-">>, <<"-", "$">>, <<"-", ".">>, <<"~">>}

SignedNumbers == {s \in NumberStrings : IsDigit(s[1])}

SignedInputs ==
    {[type |-> "str", number |-> s, lead |-> l, v |-> l \o s] : s \in SignedNumbers, l \in Leads}

InitSigned ==
    /\ pc = "start"
    /\ ServiceIdle
    /\ currency_string \in SignedInputs
    /\ parse_result = Idle
    /\ ocr_results = Idle
    /\ text_lines = Idle
    /\ total_result = Idle
    /\ today = Idle
    /\ written = Idle
    /\ date_result = Idle
    /\ top_n_lines = Idle
    /\ merchant_result = Idle
    /\ extraction = Idle

SpecSigned == InitSigned /\ [][NextPrefix]_vars

(***************************************************************************)
(* Claims about the sign of the value, checked under SpecSigned.           *)
(***************************************************************************)
\* the value of the number string on its own
UnsignedValue == _parse_number_string(currency_string.number).v

\* C29: whenever parse returns a value it is greater than or equal to 0; a
\* minus sign or other non-digit text before the number is discarded, so the
\* value is the value of the number alone and no input gives a negative
\* amount.
C29_NeverNegative ==
    pc = "done" =>
        /\ parse_result.exc = "none"
        /\ parse_result.value # None => parse_result.value[1] >= 0
        /\ parse_result.value = UnsignedValue

\* '-50.000' was parsed to 50000.0, the value of '50.000'
C29_Witness ==
    /\ pc = "done"
    /\ currency_string.v = <<"-", "5", "0", ".", "0", "0", "0">>
    /\ parse_result.value = <<50000, 0>>

(***************************************************************************)
(* Calls of TotalAmountExtractor.extract on receipts whose amounts lie     *)
(* around the least accepted amount, with and without a keyword.           *)
(***************************************************************************)
ThresholdTexts ==
    {<<"T", "o", "t", "a", "l">>, <<"1", "0", "0">>, <<"9", "9">>, <<"9", "9", ",", "9", "9">>, <<"T", "o", "t", "a", "l", " ", "9", "9">>, <<"1", "5", "0", ".", "0", "0", "0">>, <<"S", "u", "b", "t", "o", "t", "a", "l", " ", "5", "0", "0">>,
     <<"T", "h", "a", "n", "k", "s">>}

InitThreshold ==
    /\ pc = "start"
    /\ ServiceIdle
    /\ ocr_results \in Receipts(ThresholdTexts, {950}, Gaps, MaxDetections)
    /\ text_lines = Idle
    /\ total_result = Idle
    /\ currency_string = Idle
    /\ parse_result = Idle
    /\ today = Idle
    /\ written = Idle
    /\ date_result = Idle
    /\ top_n_lines = Idle
    /\ merchant_result = Idle
    /\ extraction = Idle

SpecThreshold == InitThreshold /\ [][NextTotal]_vars

(***************************************************************************)
(* Claims about the shape of the result, checked under SpecThreshold.      *)
(***************************************************************************)
\* C30: the result (raw, value, confidence) of extract is consistent: raw
\* and value are both present or both absent; the confidence is 0.0 exactly
\* when they are absent and otherwise one of 0.60, 0.75, 0.85 and 0.90; a
\* present value is at least 100, whichever strategy produced it.
C30_ConsistentResult ==
    pc = "done" =>
        /\ total_result.exc = "none"
        /\ (total_result.raw = None) <=> (total_result.value = None)
        /\ (total_result.confidence = 0) <=> (total_result.value = None)
        /\ total_result.value # None =>
               /\ total_result.confidence \in {600, 750, 850, 900}
               /\ total_result.value[1] * Pow10(0) >= 100 * Pow10(total_result.value[2])

\* the result is exactly 100, found by the fallback on a receipt that also
\* carries 99
C30_Witness ==
    /\ pc = "done"
    /\ total_result.value = <<100, 0>>
    /\ total_result.raw = <<"1", "0", "0">>
    /\ total_result.confidence = 600
    /\ \E i \in 1..Len(ocr_results) : ocr_results[i].text = <<"9", "9">>

\* nothing on the receipt reaches 100: the result is (absent, absent, 0.0)
C30_AbsentWitness ==
    /\ pc = "done"
    /\ \E i \in 1..Len(ocr_results) : ocr_results[i].text = <<"9", "9", ",", "9", "9">>
    /\ total_result = [exc |-> "none", raw |-> None, value |-> None, confidence |-> 0]

====
